---------------------------- MODULE Spec2Model ----------------------------
(***************************************************************************)
(* Pressure-traverse integrator of the multiphase flow simulator:          *)
(* TPR.simulate (flow/tpr.py) driving Mixture.update_conditions            *)
(* (flow/mixture.py, oil.py, water.py, flow/gas.py) and                    *)
(* BeggsAndBrill.update_conditions (flow/beggs_and_brill.py).              *)
(* The flow pattern and liquid holdup operations of the correlation are    *)
(* modelled in their own section below, with their own specification.      *)
(*                                                                         *)
(* Number representation.  The program computes in floating point; the     *)
(* model computes in exact fixed point:                                    *)
(*   - pressures (pressure, last_pressure, delta_p, limit, last_limit,     *)
(*     well_head_pressure, bubble_point) are integers counting half psi,   *)
(*     so delta_p = 0.5 is 1, last_limit = 5.0 is 10, limit = 10.0 is 20;  *)
(*   - depths (depth, last_depth, tubing.length) are integers counting     *)
(*     quarter feet;                                                       *)
(*   - pressure gradients are integers counting half psi per foot, so      *)
(*     delta_p / abs(dp_dz) in quarter feet is (4 * delta_p) \div |dp_dz|, *)
(*     exact for the gradient magnitudes 1, 2 and 4 used here;             *)
(*   - the interpolated pressure of a sample is the exact fraction         *)
(*     [num, den] (half psi).                                              *)
(* A value of a PVT correlation is named by the arguments it was           *)
(* evaluated at (its provenance): the correlations are pure, so two        *)
(* values with the same provenance are the same number.  A field that is   *)
(* still None is <<>>, a field holding v is <<v>>.                         *)
(***************************************************************************)
EXTENDS Integers, Sequences, FiniteSets, TLC

VARIABLES
    tubing,               \* Tubing descriptor: [length]
    well_head_pressure,   \* TPR.well_head_pressure
    pb_input,             \* the bubble point the fluid descriptors determine
    gradTab,              \* the Beggs-and-Brill closure as a pure function
    pc,                   \* position of TPR.simulate
    bubble_point,         \* local of simulate (line 18)
    flow_rates,           \* local of simulate (line 15)
    pressures,            \* local of simulate (line 16): results so far
    idx,                  \* index of the for loop over flow_rates
    pressure, depth, last_pressure, last_depth,   \* locals, lines 21-25
    delta_p, last_limit, limit,                   \* locals, lines 27-29
    mixture,              \* the Mixture object with its Gas, Oil and Water
    correlation,          \* the BeggsAndBrill object
    error,                \* the exception that left simulate, if any
    iters,                \* iterations of the while loop in this sample
    workers,              \* interleaved traverses: per sample, its locals
    no_slip_liquid_fraction,   \* argument of the holdup operations
    froude_number,             \* argument of the holdup operations
    liquid_velocity_number,    \* argument of _calc_liquid_holdup_with_incl
    inclination,               \* tubing.inclination, degrees
    flow_pattern,              \* local of BeggsAndBrill.update_conditions
    liquid_holdup,             \* local of BeggsAndBrill.update_conditions
    horz_liquid_holdup,        \* last direct call of a horizontal holdup
    holdup_call,               \* last direct call of the inclined holdup
    conditions,                \* arguments of the PVT correlations
    pvt_call,                  \* last direct call of a PVT correlation
    bisection,                 \* locals of mixture_bubble_point
    snapshots,                 \* an Oil and a Water object, in numbers
    friction                   \* arguments and last call of a friction factor

tprVars == <<tubing, well_head_pressure, pb_input, gradTab, pc, bubble_point,
             flow_rates, pressures, idx, pressure, depth, last_pressure,
             last_depth, delta_p, last_limit, limit, mixture, correlation,
             error, iters, workers>>

holdupVars == <<no_slip_liquid_fraction, froude_number,
                liquid_velocity_number, inclination, flow_pattern,
                liquid_holdup, horz_liquid_holdup, holdup_call>>

pvtVars == <<conditions, pvt_call, bisection, snapshots>>

frictionVars == <<friction>>

vars == <<tprVars, holdupVars, pvtVars, frictionVars>>

---------------------------------------------------------------------------
(* Bounds of the model *)

\* number of flow-rate samples of one simulate call
NumSamples == 2

\* longest tubing, in quarter feet
MaxLength == 40

\* TPR.step (tpr.py line 11)
step == 10

TubingLengths == {0, 3, MaxLength}

\* 0 psig, 9.5 psig, 1000 psig
WellHeadPressures == {0, 19, 2000}

\* 10 psig
BubblePoints == {20}

None == <<>>
Some(v) == <<v>>

Abs(x) == IF x < 0 THEN 0 - x ELSE x
Min(a, b) == IF a <= b THEN a ELSE b

\* np.arange(1., max_flow_rate, step), cut to NumSamples samples
FlowRates_Descending == [i \in 1..NumSamples |-> 1 + step * (NumSamples - i)]
FlowRates == [i \in 1..NumSamples |-> 1 + step * (i - 1)]

FlowRateSet == {FlowRates[i] : i \in 1..NumSamples}

---------------------------------------------------------------------------
(* Oil, Water, Gas and Mixture snapshots *)

\* Oil.calc_gas_solubility: evaluated at min(pressure, bubble_point)
Oil_calc_gas_solubility(p, pb) == IF p > pb THEN pb ELSE p

\* the test of the raise statement of the two compressibility calculations
BelowPrecondition(p, pb) == p < pb

\* Oil.calc_compressibility: raises ValueError below the bubble point
Oil_calc_compressibility(p, pb) ==
    IF BelowPrecondition(p, pb) THEN "ValueError" ELSE p

\* Oil.calc_formation_volume_factor applying the exponential correction
\* whenever a compressibility is at hand, not only above the bubble point
Oil_calc_formation_volume_factor_Stale(p, pb, gas_solubility, compressibility) ==
    [rs  |-> gas_solubility,
     exp |-> IF compressibility # None THEN <<compressibility, p>> ELSE None]

\* Oil.calc_formation_volume_factor: the saturated correlation of the
\* solubility, times exp(co * (Pb - P)) above the bubble point only
Oil_calc_formation_volume_factor(p, pb, gas_solubility, compressibility) ==
    [rs  |-> gas_solubility,
     exp |-> IF p > pb THEN <<compressibility, p>> ELSE None]

\* the test under which update_conditions computes the compressibility
CallsCompressibility_Always(p, pb) == TRUE
CallsCompressibility(p, pb) == p >= pb

\* Oil.update_conditions
Oil_update_conditions(oil, p, pb) ==
    LET gs == Oil_calc_gas_solubility(p, pb)
        co == IF CallsCompressibility(p, pb)
              THEN Some(Oil_calc_compressibility(p, pb))
              ELSE oil.compressibility
    IN  [gas_solubility |-> Some(gs),
         compressibility |-> co,
         formation_volume_factor |->
             Some(Oil_calc_formation_volume_factor(p, pb, gs, co))]

\* Water._calc_formation_volume_factor: exponential correction at and above
\* the bubble point
Water_calc_formation_volume_factor(p, pb, compressibility) ==
    [rs  |-> Min(p, pb),
     exp |-> IF p >= pb THEN <<compressibility, p>> ELSE None]

\* Water._calc_compressibility: raises ValueError below the bubble point
Water_calc_compressibility(p, pb) ==
    IF BelowPrecondition(p, pb) THEN "ValueError" ELSE p

\* Water.update_conditions
Water_update_conditions(water, p, pb) ==
    LET co == IF CallsCompressibility(p, pb)
              THEN Some(Water_calc_compressibility(p, pb))
              ELSE water.compressibility
    IN  [gas_solubility |-> Some(Min(p, pb)),
         compressibility |-> co,
         formation_volume_factor |->
             Some(Water_calc_formation_volume_factor(p, pb, co))]

\* Gas.update_conditions: every field recomputed from (pressure, temperature)
Gas_update_conditions(gas, p) ==
    [deviation_factor |-> Some(p), formation_volume_factor |-> Some(p),
     density |-> Some(p), viscosity |-> Some(p)]

\* helpers.free_gas_liquid_ratio: 0 at and above the bubble point,
\* GLRp - Rso (1 - WC) - Rsw WC below it
free_gas_liquid_ratio(p, pb, rso, rsw) ==
    IF p >= pb THEN <<"zero">> ELSE <<"free", rso, rsw>>

\* Mixture.update_conditions
Mixture_update_conditions(m, p, pb, flow_rate) ==
    LET gas   == Gas_update_conditions(m.gas, p)
        oil   == Oil_update_conditions(m.oil, p, pb)
        water == Water_update_conditions(m.water, p, pb)
    IN  [gas |-> gas, oil |-> oil, water |-> water,
         prod_flow_rate |-> Some(flow_rate),
         free_glr |-> Some(free_gas_liquid_ratio(p, pb,
                              oil.gas_solubility, water.gas_solubility))]

\* Mixture.__init__ with Gas.__init__, Oil.__init__, Water.__init__
NewMixture ==
    [gas |-> [deviation_factor |-> None, formation_volume_factor |-> None,
              density |-> None, viscosity |-> None],
     oil |-> [gas_solubility |-> None, compressibility |-> None,
              formation_volume_factor |-> None],
     water |-> [gas_solubility |-> None, compressibility |-> None,
                formation_volume_factor |-> None],
     prod_flow_rate |-> None,
     free_glr |-> None]

---------------------------------------------------------------------------
(* Beggs and Brill closure *)

\* The gradients the closure can return: <<gravitational, frictional>> in
\* half psi per foot.  <<1, -1>> is a stagnant column (downward flow whose
\* hydrostatic gain cancels the friction loss).
Gradients == { <<-1, -3>>, <<1, -1>>, <<2, -1>> }

Phases == {"two_phase", "single_phase"}

\* What the closure reads from the mixture: the production rate, and whether
\* the snapshot is that of a single-phase column (no free gas, or an oil
\* volume factor carrying the compressibility term) or of a two-phase one.
PhaseOf(m) ==
    IF m.oil.formation_volume_factor[1].exp # None \/ m.free_glr[1][1] = "zero"
    THEN "single_phase" ELSE "two_phase"

\* An exp(co * (Pb - P)) of a compressibility that is still None is a
\* TypeError.
BadOperand(m) ==
    \/ m.oil.formation_volume_factor[1].exp = <<None, m.gas.density[1]>>
    \/ m.water.formation_volume_factor[1].exp = <<None, m.gas.density[1]>>

\* BeggsAndBrill.update_conditions
BeggsAndBrill_update_conditions(m) ==
    LET g == gradTab[<<m.prod_flow_rate[1], PhaseOf(m)>>]
    IN  [grav_pressure_gradient |-> g[1], fric_pressure_gradient |-> g[2]]

\* BeggsAndBrill.__init__
NewCorrelation == [grav_pressure_gradient |-> 0, fric_pressure_gradient |-> 0]

---------------------------------------------------------------------------
(* TPR.simulate *)

NoError == [type |-> "none", line |-> 0]

\* the while condition with <= for <
LoopCondition_Inclusive(d, length) == d <= length

\* the while condition of line 30
LoopCondition(d, length) == d < length

\* the schedule with limit * 10 for last_limit * 10
Schedule_TenfoldLimit(p, dp, ll, lim) ==
    IF p >= lim THEN <<lim \div 10, lim, lim * 10>> ELSE <<dp, ll, lim>>

\* lines 46-50: the step-size schedule, as <<delta_p, last_limit, limit>>
Schedule(p, dp, ll, lim) ==
    IF p >= lim THEN <<lim \div 10, lim, ll * 10>> ELSE <<dp, ll, lim>>

\* the locals of a sample with the schedule of the sample before it
SampleLocals_KeepSchedule(whp) ==
    [pressure |-> whp, depth |-> 0, last_pressure |-> 0, last_depth |-> 0,
     delta_p |-> IF idx > 1 THEN delta_p ELSE 1,
     last_limit |-> IF idx > 1 THEN last_limit ELSE 10,
     limit |-> IF idx > 1 THEN limit ELSE 20]

\* lines 20-29: the locals of a sample as the for loop sets them
SampleLocals(whp) ==
    [pressure |-> whp, depth |-> 0, last_pressure |-> 0, last_depth |-> 0,
     delta_p |-> 1, last_limit |-> 10, limit |-> 20]

\* the Euler step with the depth advanced by the step size of the schedule
\* check, not by the one in force before it
Advance_ScheduleFirst(loc, c) ==
    LET dp_dz == c.grav_pressure_gradient + c.fric_pressure_gradient
        p == loc.pressure + loc.delta_p
        s == Schedule(p, loc.delta_p, loc.last_limit, loc.limit)
    IN  IF dp_dz = 0
        THEN [loc |-> [loc EXCEPT !.last_depth = loc.depth],
              error |-> [type |-> "ZeroDivisionError", line |-> 41]]
        ELSE [loc |-> [pressure |-> p,
                       depth |-> loc.depth + (4 * s[1]) \div Abs(dp_dz),
                       last_pressure |-> loc.pressure,
                       last_depth |-> loc.depth,
                       delta_p |-> s[1], last_limit |-> s[2], limit |-> s[3]],
              error |-> NoError]

\* lines 36-50: the Euler step and the schedule, on the locals loc with the
\* gradients of the correlation object c; raises on a zero gradient
Advance(loc, c) ==
    LET dp_dz == c.grav_pressure_gradient + c.fric_pressure_gradient
        p == loc.pressure + loc.delta_p
        s == Schedule(p, loc.delta_p, loc.last_limit, loc.limit)
    IN  IF dp_dz = 0
        THEN [loc |-> [loc EXCEPT !.last_depth = loc.depth],
              error |-> [type |-> "ZeroDivisionError", line |-> 41]]
        ELSE [loc |-> [pressure |-> p,
                       depth |-> loc.depth + (4 * loc.delta_p) \div Abs(dp_dz),
                       last_pressure |-> loc.pressure,
                       last_depth |-> loc.depth,
                       delta_p |-> s[1], last_limit |-> s[2], limit |-> s[3]],
              error |-> NoError]

\* a compressibility calculation of the update at (p, pb) is called and
\* raises its ValueError; the oil is updated first
PreconditionError(p, pb) ==
    CallsCompressibility(p, pb) /\ BelowPrecondition(p, pb)

\* the Mixture after the ValueError of Oil.calc_compressibility has left
\* Mixture.update_conditions: the gas updated, of the oil the solubility
\* only, nothing after it
Interrupted(m, m2) ==
    [m EXCEPT !.gas = m2.gas, !.oil.gas_solubility = m2.oil.gas_solubility]

\* lines 31-50: the body of the while loop on the locals loc, the Mixture m
\* and the correlation object c, for the flow rate q
LoopBody(loc, m, c, pb, q) ==
    LET m2 == Mixture_update_conditions(m, loc.pressure, pb, q)
        c2 == BeggsAndBrill_update_conditions(m2)
        a  == Advance(loc, c2)
    IN  IF PreconditionError(loc.pressure, pb)
        THEN [loc |-> loc, mixture |-> Interrupted(m, m2),
              correlation |-> c,
              error |-> [type |-> "ValueError", line |-> 31]]
        ELSE IF BadOperand(m2)
        THEN [loc |-> loc, mixture |-> m2, correlation |-> c,
              error |-> [type |-> "TypeError", line |-> 31]]
        ELSE [loc |-> a.loc, mixture |-> m2, correlation |-> c2,
              error |-> a.error]

\* lines 52-53: the pressure at tubing.length, as an exact fraction
Interpolate(length, ld, d, lp, p) ==
    [num |-> lp * (d - ld) + (length - ld) * (p - lp), den |-> d - ld]

Locals ==
    [pressure |-> pressure, depth |-> depth, last_pressure |-> last_pressure,
     last_depth |-> last_depth, delta_p |-> delta_p,
     last_limit |-> last_limit, limit |-> limit]

SetLocals(loc) ==
    /\ pressure' = loc.pressure
    /\ depth' = loc.depth
    /\ last_pressure' = loc.last_pressure
    /\ last_depth' = loc.last_depth
    /\ delta_p' = loc.delta_p
    /\ last_limit' = loc.last_limit
    /\ limit' = loc.limit

\* no holdup operation has been called
HoldupIdle ==
    /\ no_slip_liquid_fraction = 0
    /\ froude_number = 0
    /\ liquid_velocity_number = 0
    /\ inclination = 0
    /\ flow_pattern = None
    /\ liquid_holdup = None
    /\ horz_liquid_holdup = None
    /\ holdup_call = None
    /\ friction = None

\* no PVT correlation has been called
PvtIdle ==
    /\ conditions = None
    /\ pvt_call = None
    /\ bisection = None
    /\ snapshots = None

Init ==
    /\ tubing \in [length : TubingLengths]
    /\ well_head_pressure \in WellHeadPressures
    /\ pb_input \in BubblePoints
    /\ gradTab \in [FlowRateSet \X Phases -> Gradients]
    /\ pc = "start"
    /\ bubble_point = None
    /\ flow_rates = <<>>
    /\ pressures = <<>>
    /\ idx = 0
    /\ pressure = 0 /\ depth = 0 /\ last_pressure = 0 /\ last_depth = 0
    /\ delta_p = 0 /\ last_limit = 0 /\ limit = 0
    /\ mixture = NewMixture
    /\ correlation = NewCorrelation
    /\ error = NoError
    /\ iters = 0
    /\ workers = <<>>
    /\ HoldupIdle
    /\ PvtIdle

\* lines 15-18
SimulateBegin ==
    /\ pc = "start"
    /\ flow_rates' = FlowRates
    /\ pressures' = <<>>
    /\ bubble_point' = Some(pb_input)
    /\ idx' = 1
    /\ pc' = "for"
    /\ UNCHANGED <<tubing, well_head_pressure, pb_input, gradTab, pressure,
                   depth, last_pressure, last_depth, delta_p, last_limit,
                   limit, mixture, correlation, error, iters, workers>>
    /\ UNCHANGED <<holdupVars, pvtVars, frictionVars>>

\* lines 20-29: the next flow rate, its locals reset
SampleBegin ==
    /\ pc = "for"
    /\ idx <= Len(flow_rates)
    /\ SetLocals(SampleLocals(well_head_pressure))
    /\ iters' = 0
    /\ pc' = "while"
    /\ UNCHANGED <<tubing, well_head_pressure, pb_input, gradTab,
                   bubble_point, flow_rates, pressures, idx, mixture,
                   correlation, error, workers>>
    /\ UNCHANGED <<holdupVars, pvtVars, frictionVars>>

\* lines 30-50: one iteration of the while loop; an exception leaves simulate
Iterate ==
    /\ pc = "while"
    /\ LoopCondition(depth, tubing.length)
    /\ LET r == LoopBody(Locals, mixture, correlation, bubble_point[1],
                         flow_rates[idx])
       IN  /\ SetLocals(r.loc)
           /\ mixture' = r.mixture
           /\ correlation' = r.correlation
           /\ error' = r.error
           /\ pc' = IF r.error = NoError THEN "while" ELSE "raised"
    /\ iters' = iters + 1
    /\ UNCHANGED <<tubing, well_head_pressure, pb_input, gradTab,
                   bubble_point, flow_rates, pressures, idx, workers>>
    /\ UNCHANGED <<holdupVars, pvtVars, frictionVars>>

\* lines 52-54: leave the loop, interpolate at tubing.length, append
SampleEnd ==
    /\ pc = "while"
    /\ ~LoopCondition(depth, tubing.length)
    /\ IF depth - last_depth = 0
       THEN /\ pc' = "raised"
            /\ error' = [type |-> "ZeroDivisionError", line |-> 52]
            /\ UNCHANGED <<pressures, idx, pressure>>
       ELSE LET r == Interpolate(tubing.length, last_depth, depth,
                                 last_pressure, pressure)
            IN  /\ pressure' = r
                /\ pressures' = Append(pressures, r)
                /\ idx' = idx + 1
                /\ pc' = "for"
                /\ UNCHANGED error
    /\ UNCHANGED <<tubing, well_head_pressure, pb_input, gradTab,
                   bubble_point, flow_rates, depth, last_pressure,
                   last_depth, delta_p, last_limit, limit, mixture,
                   correlation, iters, workers>>
    /\ UNCHANGED <<holdupVars, pvtVars, frictionVars>>

\* line 56
Return ==
    /\ pc = "for"
    /\ idx > Len(flow_rates)
    /\ pc' = "returned"
    /\ UNCHANGED <<tubing, well_head_pressure, pb_input, gradTab,
                   bubble_point, flow_rates, pressures, idx, pressure, depth,
                   last_pressure, last_depth, delta_p, last_limit, limit,
                   mixture, correlation, error, iters, workers>>
    /\ UNCHANGED <<holdupVars, pvtVars, frictionVars>>

Next == SimulateBegin \/ SampleBegin \/ Iterate \/ SampleEnd \/ Return

Spec == Init /\ [][Next]_vars

---------------------------------------------------------------------------
(* The samples of one TPR object run interleaved: every sample has its own
   locals, all use the Mixture and the correlation object the TPR holds
   (self.mixture, self.correlation), and the three calls of an iteration
   (lines 31-33, line 34, lines 36-50) are separate steps. *)

Samples == 1..NumSamples

InitInterleaved ==
    /\ tubing \in [length : TubingLengths \ {MaxLength}]
    /\ well_head_pressure \in WellHeadPressures
    /\ pb_input \in BubblePoints
    /\ gradTab \in [FlowRateSet \X Phases -> Gradients]
    /\ pc = "interleaved"
    /\ bubble_point = Some(pb_input)
    /\ flow_rates = FlowRates
    /\ pressures = <<>>
    /\ idx = 0
    /\ pressure = 0 /\ depth = 0 /\ last_pressure = 0 /\ last_depth = 0
    /\ delta_p = 0 /\ last_limit = 0 /\ limit = 0
    /\ mixture = NewMixture
    /\ correlation = NewCorrelation
    /\ error = NoError
    /\ iters = 0
    /\ workers = [w \in Samples |->
                    [at |-> "mixture", loc |-> SampleLocals(well_head_pressure),
                     flow_rate |-> FlowRates[w], result |-> None]]
    /\ HoldupIdle
    /\ PvtIdle

SharedOnly ==
    UNCHANGED <<tubing, well_head_pressure, pb_input, gradTab, pc,
                bubble_point, flow_rates, pressures, idx, pressure, depth,
                last_pressure, last_depth, delta_p, last_limit, limit,
                error, iters, holdupVars, pvtVars, frictionVars>>

\* lines 30-33 of sample w: the loop test and mixture.update_conditions
WorkerMixture(w) ==
    /\ workers[w].at = "mixture"
    /\ LoopCondition(workers[w].loc.depth, tubing.length)
    /\ LET m == Mixture_update_conditions(mixture, workers[w].loc.pressure,
                                          bubble_point[1], workers[w].flow_rate)
       IN  /\ mixture' = m
           /\ workers' = [workers EXCEPT ![w].at =
                            IF BadOperand(m) THEN "raised" ELSE "correlation"]
    /\ UNCHANGED correlation
    /\ SharedOnly

\* line 34 of sample w: correlation.update_conditions(self.mixture, ...)
WorkerCorrelation(w) ==
    /\ workers[w].at = "correlation"
    /\ correlation' = BeggsAndBrill_update_conditions(mixture)
    /\ workers' = [workers EXCEPT ![w].at = "advance"]
    /\ UNCHANGED mixture
    /\ SharedOnly

\* lines 36-50 of sample w
WorkerAdvance(w) ==
    /\ workers[w].at = "advance"
    /\ LET a == Advance(workers[w].loc, correlation)
       IN  workers' = [workers EXCEPT
                         ![w].loc = a.loc,
                         ![w].at = IF a.error = NoError THEN "mixture"
                                                        ELSE "raised"]
    /\ UNCHANGED <<mixture, correlation>>
    /\ SharedOnly

\* lines 52-54 of sample w
WorkerEnd(w) ==
    /\ workers[w].at = "mixture"
    /\ ~LoopCondition(workers[w].loc.depth, tubing.length)
    /\ LET loc == workers[w].loc
       IN  workers' = [workers EXCEPT
             ![w].at = IF loc.depth - loc.last_depth = 0 THEN "raised"
                                                         ELSE "done",
             ![w].result = IF loc.depth - loc.last_depth = 0 THEN None
                 ELSE Some(Interpolate(tubing.length, loc.last_depth,
                         loc.depth, loc.last_pressure, loc.pressure))]
    /\ UNCHANGED <<mixture, correlation>>
    /\ SharedOnly

NextInterleaved ==
    \E w \in Samples :
        WorkerMixture(w) \/ WorkerCorrelation(w) \/ WorkerAdvance(w)
            \/ WorkerEnd(w)

SpecInterleaved == InitInterleaved /\ [][NextInterleaved]_vars

---------------------------------------------------------------------------
(* Claims about TPR.simulate *)

\* the loop of the current sample has just been left (line 52 is next)
AtLoopExit == pc = "while" /\ ~(depth < tubing.length)

\* C1: for a tubing of positive length, whenever the while loop of a sample
\* is left, last_depth < tubing.length <= depth, so the interpolation factor
\* (L - last_depth) / (depth - last_depth) lies in (0, 1] and the pressure
\* that is returned lies in (last_pressure, pressure].
C1_InterpolationBracket ==
    (AtLoopExit /\ tubing.length > 0) =>
        LET r == Interpolate(tubing.length, last_depth, depth,
                             last_pressure, pressure)
        IN  /\ last_depth < tubing.length
            /\ tubing.length <= depth
            /\ 0 < tubing.length - last_depth
            /\ tubing.length - last_depth <= depth - last_depth
            /\ r.den > 0
            /\ last_pressure * r.den < r.num
            /\ r.num <= pressure * r.den

\* a loop left after several iterations, strictly inside the last step
C1_Witness ==
    /\ AtLoopExit
    /\ iters >= 3
    /\ last_depth < tubing.length
    /\ tubing.length < depth

\* C2 (as claimed): a step whose gradient is 0 ends the sample with a
\* distinct degenerate-traverse error, never with the division fault of
\* line 41.
C2_StagnantColumnReported ==
    (pc = "raised" /\ error.line = 41) => error.type = "DegenerateTraverse"

\* C3 (as claimed): when a sample fails, every other flow rate of the call
\* still has its pressure in the result.
C3_FailureIsPerSample ==
    (pc = "raised" /\ error.line = 41) =>
        \A i \in 1..Len(flow_rates) : i # idx => i <= Len(pressures)

\* the cap on the iterations of one sample that C4 speaks of
StepCap == 25

\* C4 (as claimed): the while loop of a sample runs at most a capped number
\* of iterations: once StepCap iterations are done the sample is no longer
\* integrating.
C4_IterationsCapped ==
    (pc = "while" /\ iters >= StepCap) => ~LoopCondition(depth, tubing.length)

\* the n-th limit of the schedule, in half psi: 10, 50, 100, 500, 1000, ...
\* psi
LimitAt(n) == IF n % 2 = 0 THEN 20 * 10 ^ (n \div 2)
                           ELSE 100 * 10 ^ ((n - 1) \div 2)

\* the n-th step size, in half psi: 0.5, 1, 5, 10, 50, ... psi
DeltaAt(n) == IF n = 0 THEN 1 ELSE LimitAt(n - 1) \div 10

\* the limit before the n-th: 5, 10, 50, 100, ... psi
LastLimitAt(n) == IF n = 0 THEN 10 ELSE LimitAt(n - 1)

\* more rotations than any sample of the model makes
MaxRotations == 7

\* C5: a sample starts with (delta_p, last_limit, limit) = (0.5, 5, 10); an
\* iteration whose advanced pressure reaches limit rotates once to
\* (limit / 10, limit, 10 * last_limit) and any other iteration leaves the
\* three unchanged; so the triple is always the n-th of the sequence
\* limits 10, 50, 100, 500, 1000, ... and step sizes 0.5, 1, 5, 10, 50, ...
C5_StepSchedule ==
    /\ [](pc = "while" =>
            \E n \in 0..MaxRotations :
                /\ delta_p = DeltaAt(n)
                /\ last_limit = LastLimitAt(n)
                /\ limit = LimitAt(n))
    /\ [][(pc = "for" /\ pc' = "while") =>
            /\ delta_p' = 1 /\ last_limit' = 10 /\ limit' = 20]_vars
    /\ [][(pc = "while" /\ pc' = "while") =>
            /\ pressure' = pressure + delta_p
            /\ IF pressure' >= limit
               THEN /\ delta_p' = limit \div 10
                    /\ limit' = 10 * last_limit
                    /\ last_limit' = limit
               ELSE UNCHANGED <<delta_p, last_limit, limit>>]_vars

\* the fifth limit (1000 psi) in force with a step of 50 psi
C5_Witness ==
    pc = "while" /\ limit = 2000 /\ last_limit = 1000 /\ delta_p = 100

---------------------------------------------------------------------------
(* Determinism and independence of the samples *)

\* The traverse of flow rate q on objects of its own: a new Mixture and a
\* new correlation object, the loop body repeated until the loop is left.
\* <<"ok", pressure>> or <<"raised">>.
RECURSIVE FreshLoop(_, _, _, _)
FreshLoop(loc, m, c, q) ==
    IF LoopCondition(loc.depth, tubing.length)
    THEN LET r == LoopBody(loc, m, c, bubble_point[1], q)
         IN  IF r.error = NoError
             THEN FreshLoop(r.loc, r.mixture, r.correlation, q)
             ELSE <<"raised">>
    ELSE IF loc.depth - loc.last_depth = 0
         THEN <<"raised">>
         ELSE <<"ok", Interpolate(tubing.length, loc.last_depth, loc.depth,
                                  loc.last_pressure, loc.pressure)>>

FreshTraverse(q) ==
    FreshLoop(SampleLocals(well_head_pressure), NewMixture, NewCorrelation, q)

FreeGas(m) == m.free_glr # None /\ m.free_glr[1][1] = "free"

\* C6: the pressure simulate appends for a flow rate is the pressure of that
\* flow rate's traverse on new objects, whatever samples the shared Mixture
\* and correlation object went through before; and a snapshot updated below
\* the bubble point carries no compressibility term, whatever value
\* Oil.compressibility and Water.compressibility still hold.
C6_Deterministic ==
    /\ \A i \in 1..Len(pressures) :
          FreshTraverse(flow_rates[i]) = <<"ok", pressures[i]>>
    /\ FreeGas(mixture) =>
          /\ mixture.oil.formation_volume_factor[1].exp = None
          /\ mixture.water.formation_volume_factor[1].exp = None

\* the second sample is being integrated below the bubble point while
\* Oil.compressibility still holds the value of the first sample
C6_Witness ==
    /\ pc = "while" /\ idx = 2 /\ iters >= 1
    /\ FreeGas(mixture)
    /\ mixture.oil.compressibility # None
    /\ Len(pressures) = 1

\* C7 (as claimed): samples whose iterations are interleaved on one TPR get
\* the pressures they get when run one after the other.
C7_InterleavingIndependent ==
    \A w \in DOMAIN workers :
        workers[w].at = "done" =>
            FreshTraverse(workers[w].flow_rate) = <<"ok", workers[w].result[1]>>

---------------------------------------------------------------------------
(* Flow pattern and liquid holdup of the Beggs and Brill correlation
   (flow/beggs_and_brill.py, formulas.py).

   Number representation.  Every quantity that the code only multiplies,
   divides and raises to constant powers is carried by its natural
   logarithm, in units of 1/10000: froude_number, liquid_velocity_number
   and the four transition Froude numbers.  A product of powers is then a
   sum of multiples, a * x ** b is ln(a) + b * ln(x), and the comparisons
   of the classifier are the comparisons of the logarithms.  The constants
   of the code appear as their logarithms (316.0 is 57557) and its
   exponents in units of 1/10000 (0.302 is 3020).
   no_slip_liquid_fraction counts tenths (1 .. 10 for 0.1 .. 1.0).
   Holdups, the weights of the transition blend and the inclination
   factors are plain numbers in units of 1/10000; Exp goes from a logarithm
   to the plain number. *)

Scale == 10 ^ 4

Max(a, b) == IF a >= b THEN a ELSE b

\* natural logarithm of lam / 10, lam in 1 .. 10
LnTenth ==
    <<-23026, -16094, -12040, -9163, -6931, -5108, -3567, -2231, -1054, 0>>

\* e ** (x / Scale) * Scale: x = n * ln 2 + r with 0 <= r < ln 2, the
\* exponential series on r, the power of two on n
Exp(x) ==
    LET ln2 == 6931
        n  == x \div ln2
        r  == x - ln2 * n
        t2 == (r * r) \div (2 * Scale)
        t3 == (t2 * r) \div (3 * Scale)
        t4 == (t3 * r) \div (4 * Scale)
        t5 == (t4 * r) \div (5 * Scale)
        t6 == (t5 * r) \div (6 * Scale)
        er == Scale + r + t2 + t3 + t4 + t5 + t6
    IN  IF n >= 0 THEN er * 2 ^ n ELSE er \div 2 ^ (0 - n)

\* no_slip_liquid_fraction as a plain number
Fraction(lam) == lam * (Scale \div 10)

FlowPattern ==
    {"distributed", "intermittent", "transition", "segregated", "downward"}

\* (ln term_a, term_b, term_c)
HORZ_LIQUID_HOLDUP_CONSTANTS ==
    "segregated"   :> <<-202, 4846, 868>> @@
    "intermittent" :> <<-1684, 5351, 173>> @@
    "distributed"  :> <<630, 5824, 609>>

\* (ln term_d, term_e, term_f, term_g)
LIQUID_HOLDUP_CONSTANTS ==
    "segregated"   :> <<-45099, -37680, 35390, -16140>> @@
    "intermittent" :> <<10852, 3050, -4473, 978>> @@
    "distributed"  :> <<0, 10000, 10000, 10000>> @@
    "downward"     :> <<15476, -3692, 1244, -5056>>

\* the result of an operation: the value returned or the exception raised
Ok(v) == <<"ok", v>>
KeyError == <<"KeyError">>

\* (ln Fr_1, ln Fr_2, ln Fr_3, ln Fr_4)
BeggsAndBrill_calc_transition_froude_numbers(lam) ==
    LET l == LnTenth[lam]
    IN  << 57557 + (3020 * l) \div Scale,
           -69855 + (-24684 * l) \div Scale,
           -23026 + (-14516 * l) \div Scale,
           -6931 + (-67380 * l) \div Scale >>

\* the classifier with the first test strict
BeggsAndBrill_calc_flow_pattern_Strict(fr, lam) ==
    LET t == BeggsAndBrill_calc_transition_froude_numbers(lam)
    IN  IF fr > t[1] \/ fr > t[4] THEN "distributed"
        ELSE IF fr > t[3] THEN "intermittent"
        ELSE IF fr > t[2] THEN "transition"
        ELSE "segregated"

BeggsAndBrill_calc_flow_pattern(fr, lam) ==
    LET t == BeggsAndBrill_calc_transition_froude_numbers(lam)
    IN  IF fr >= t[1] \/ fr >= t[4] THEN "distributed"
        ELSE IF fr > t[3] THEN "intermittent"
        ELSE IF fr > t[2] THEN "transition"
        ELSE "segregated"

\* term_a * no_slip_liquid_fraction ** term_b / froude_number ** term_c
HorzAnswer(k, fr, lam) ==
    Exp(k[1] + (k[2] * LnTenth[lam]) \div Scale - (k[3] * fr) \div Scale)

\* the horizontal holdup without the floor
BeggsAndBrill_calc_horz_liquid_holdup_NoFloor(pattern, fr, lam) ==
    IF pattern \notin DOMAIN HORZ_LIQUID_HOLDUP_CONSTANTS
    THEN KeyError
    ELSE Ok(HorzAnswer(HORZ_LIQUID_HOLDUP_CONSTANTS[pattern], fr, lam))

BeggsAndBrill_calc_horz_liquid_holdup(pattern, fr, lam) ==
    IF pattern \notin DOMAIN HORZ_LIQUID_HOLDUP_CONSTANTS
    THEN KeyError
    ELSE Ok(Max(HorzAnswer(HORZ_LIQUID_HOLDUP_CONSTANTS[pattern], fr, lam),
                Fraction(lam)))

\* the divisor of term_a, fr3 - fr2
Span_Reversed(t) == Exp(t[2]) - Exp(t[3])
Span(t) == Exp(t[3]) - Exp(t[2])

\* the weight of the intermittent holdup taken for term_a
BlendWeight_Swapped(fr, lam) ==
    LET t == BeggsAndBrill_calc_transition_froude_numbers(lam)
    IN  ((Exp(fr) - Exp(t[2])) * Scale) \div (Exp(t[3]) - Exp(t[2]))

\* term_a of the transition blend, (fr3 - froude_number) / (fr3 - fr2)
BlendWeight(fr, lam) ==
    LET t == BeggsAndBrill_calc_transition_froude_numbers(lam)
    IN  ((Exp(t[3]) - Exp(fr)) * Scale) \div Span(t)

\* formulas.horz_liquid_holdup: the same constants, and the transition
\* pattern blended from the segregated and the intermittent holdup
RECURSIVE formulas_horz_liquid_holdup(_, _, _)
formulas_horz_liquid_holdup(pattern, fr, lam) ==
    IF pattern # "transition"
    THEN IF pattern \notin DOMAIN HORZ_LIQUID_HOLDUP_CONSTANTS
         THEN KeyError
         ELSE Ok(Max(HorzAnswer(HORZ_LIQUID_HOLDUP_CONSTANTS[pattern], fr, lam),
                     Fraction(lam)))
    ELSE LET term_a == BlendWeight(fr, lam)
             term_b == Scale - term_a
             seg == formulas_horz_liquid_holdup("segregated", fr, lam)
             int == formulas_horz_liquid_holdup("intermittent", fr, lam)
             answer == (term_a * seg[2] + term_b * int[2]) \div Scale
         IN  Ok(Max(answer, Fraction(lam)))

Inclinations == {-90, -30, 0, 30, 90}

\* math.sin(1.8 * inclination_rad)
Sin18 == -90 :> -3090 @@ -30 :> -8090 @@ 0 :> 0 @@ 30 :> 8090 @@ 90 :> 3090

\* the product returned as it is
Clamp_Unbounded(min_value, max_value, x) == x

Clamp(min_value, max_value, x) == Max(min_value, Min(max_value, x))

\* lines 201-236: the result of a pattern other than transition, given the
\* entry of LIQUID_HOLDUP_CONSTANTS the code reads for it
InclinedHoldup(key, pattern, h0, fr, lam, nlv, incl) ==
    LET k == LIQUID_HOLDUP_CONSTANTS[key]
        logarithm == k[1] + (k[2] * LnTenth[lam]) \div Scale
                          + (k[3] * nlv) \div Scale
                          + (k[4] * fr) \div Scale
        c_parameter == IF pattern = "distributed" THEN 0
                       ELSE Max(0, ((10 - lam) * logarithm) \div 10)
        sine == Sin18[incl]
        cube == (((sine * sine) \div Scale) * sine) \div Scale
        phi_parameter ==
            Scale + (c_parameter * (sine - (333 * cube) \div 1000)) \div Scale
        payne_factor == IF incl > 0 THEN 9240 ELSE 6850
        max_value == IF incl < 0 THEN Fraction(lam) ELSE Scale
        min_value == IF incl >= 0 THEN Fraction(lam) ELSE 0
    IN  Clamp(min_value, max_value,
              (((payne_factor * h0) \div Scale) * phi_parameter) \div Scale)

\* the key of LIQUID_HOLDUP_CONSTANTS taken from the direction of the flow
LiquidHoldupKey_ByDirection(pattern, incl) ==
    IF pattern = "segregated" THEN "downward" ELSE pattern

\* term_d, term_e, term_f, term_g = LIQUID_HOLDUP_CONSTANTS[flow_pattern]
LiquidHoldupKey(pattern, incl) == pattern

\* lines 246 and 254: the patterns of the two calls of the transition branch
Constituents_Alike == <<"intermittent", "intermittent">>
Constituents == <<"segregated", "intermittent">>

\* BeggsAndBrill._calc_liquid_holdup_with_incl.  value is the result;
\* horz_keys and incl_keys are the keys looked up in
\* HORZ_LIQUID_HOLDUP_CONSTANTS and LIQUID_HOLDUP_CONSTANTS, calls the
\* number of calls the function made of itself.
RECURSIVE BeggsAndBrill_calc_liquid_holdup_with_incl(_, _, _, _, _)
BeggsAndBrill_calc_liquid_holdup_with_incl(pattern, fr, lam, nlv, incl) ==
    IF pattern # "transition"
    THEN LET h0 == BeggsAndBrill_calc_horz_liquid_holdup(pattern, fr, lam)
             key == LiquidHoldupKey(pattern, incl)
         IN  IF h0 = KeyError
             THEN [value |-> KeyError, horz_keys |-> {pattern},
                   incl_keys |-> {}, calls |-> 0]
             ELSE IF key \notin DOMAIN LIQUID_HOLDUP_CONSTANTS
             THEN [value |-> KeyError, horz_keys |-> {pattern},
                   incl_keys |-> {key}, calls |-> 0]
             ELSE [value |-> Ok(InclinedHoldup(key, pattern, h0[2], fr, lam,
                                               nlv, incl)),
                   horz_keys |-> {pattern}, incl_keys |-> {key},
                   calls |-> 0]
    ELSE LET term_a == BlendWeight(fr, lam)
             term_b == Scale - term_a
             seg == BeggsAndBrill_calc_liquid_holdup_with_incl(
                        Constituents[1], fr, lam, nlv, incl)
             int == BeggsAndBrill_calc_liquid_holdup_with_incl(
                        Constituents[2], fr, lam, nlv, incl)
             answer == (term_a * seg.value[2] + term_b * int.value[2])
                           \div Scale
             max_value == IF incl < 0 THEN Fraction(lam) ELSE Scale
             min_value == IF incl >= 0 THEN Fraction(lam) ELSE 0
         IN  [value |-> Ok(Clamp(min_value, max_value, answer)),
              horz_keys |-> seg.horz_keys \cup int.horz_keys,
              incl_keys |-> seg.incl_keys \cup int.incl_keys,
              calls |-> 2 + seg.calls + int.calls]

---------------------------------------------------------------------------
(* The operations applied to arguments of a grid *)

Lambdas == 1..10

\* ln froude_number: each transition Froude number of the liquid fraction,
\* the values next to it on either side, and three values in between
FroudeNumbers(lam) ==
    LET t == BeggsAndBrill_calc_transition_froude_numbers(lam)
    IN  UNION {{t[i] - 1, t[i], t[i] + 1} : i \in 1..4}
            \cup {-40000, 0, 30000}

\* ln liquid_velocity_number
LiquidVelocityNumbers == {-10000, 0, 10000}

\* the largest ln froude_number the blend of formulas.horz_liquid_holdup is
\* evaluated at, for the weights to stay in the range of the arithmetic
BlendRange(lam) == BeggsAndBrill_calc_transition_froude_numbers(lam)[3] + Scale

InitHoldup ==
    /\ tubing = [length |-> 0]
    /\ well_head_pressure = 0
    /\ pb_input = 0
    /\ gradTab = <<>>
    /\ pc = "holdup"
    /\ bubble_point = None
    /\ flow_rates = <<>>
    /\ pressures = <<>>
    /\ idx = 0
    /\ pressure = 0 /\ depth = 0 /\ last_pressure = 0 /\ last_depth = 0
    /\ delta_p = 0 /\ last_limit = 0 /\ limit = 0
    /\ mixture = NewMixture
    /\ correlation = NewCorrelation
    /\ error = NoError
    /\ iters = 0
    /\ workers = <<>>
    /\ no_slip_liquid_fraction \in Lambdas
    /\ froude_number \in FroudeNumbers(no_slip_liquid_fraction)
    /\ liquid_velocity_number \in LiquidVelocityNumbers
    /\ inclination \in Inclinations
    /\ flow_pattern = None
    /\ liquid_holdup = None
    /\ horz_liquid_holdup = None
    /\ holdup_call = None
    /\ friction = None
    /\ PvtIdle

\* update_conditions, line 29
CalcFlowPattern ==
    /\ flow_pattern = None
    /\ flow_pattern' = Some(BeggsAndBrill_calc_flow_pattern(
                                froude_number, no_slip_liquid_fraction))
    /\ UNCHANGED <<tprVars, pvtVars, frictionVars,
                   no_slip_liquid_fraction, froude_number,
                   liquid_velocity_number, inclination, liquid_holdup,
                   horz_liquid_holdup, holdup_call>>

\* update_conditions, lines 35-41
CalcLiquidHoldup ==
    /\ flow_pattern # None
    /\ liquid_holdup = None
    /\ liquid_holdup' = Some(BeggsAndBrill_calc_liquid_holdup_with_incl(
                                 flow_pattern[1], froude_number,
                                 no_slip_liquid_fraction,
                                 liquid_velocity_number, inclination))
    /\ UNCHANGED <<tprVars, pvtVars, frictionVars,
                   no_slip_liquid_fraction, froude_number,
                   liquid_velocity_number, inclination, flow_pattern,
                   horz_liquid_holdup, holdup_call>>

\* a call of BeggsAndBrill._calc_horz_liquid_holdup; one kind of direct call
\* is recorded in a behaviour, the horizontal or the inclined holdup
CalcHorzLiquidHoldup ==
    /\ holdup_call = None
    /\ \E pattern \in FlowPattern :
          horz_liquid_holdup' =
              Some([of |-> "BeggsAndBrill", pattern |-> pattern,
                    value |-> BeggsAndBrill_calc_horz_liquid_holdup(
                        pattern, froude_number, no_slip_liquid_fraction)])
    /\ UNCHANGED <<tprVars, pvtVars, frictionVars,
                   no_slip_liquid_fraction, froude_number,
                   liquid_velocity_number, inclination, flow_pattern,
                   liquid_holdup, holdup_call>>

\* a call of formulas.horz_liquid_holdup
FormulasHorzLiquidHoldup ==
    /\ holdup_call = None
    /\ \E pattern \in FlowPattern :
          /\ pattern = "transition" =>
                 froude_number <= BlendRange(no_slip_liquid_fraction)
          /\ horz_liquid_holdup' =
                 Some([of |-> "formulas", pattern |-> pattern,
                       value |-> formulas_horz_liquid_holdup(
                           pattern, froude_number, no_slip_liquid_fraction)])
    /\ UNCHANGED <<tprVars, pvtVars, frictionVars,
                   no_slip_liquid_fraction, froude_number,
                   liquid_velocity_number, inclination, flow_pattern,
                   liquid_holdup, holdup_call>>

\* the Froude numbers a pattern's inclined holdup is evaluated at, for the
\* products and the blend weight to stay in the range of the arithmetic
InRange(pattern, fr, lam) ==
    /\ pattern = "transition" => fr <= BlendRange(lam)
    /\ pattern = "segregated" => fr <= 13 * Scale

\* a call of BeggsAndBrill._calc_liquid_holdup_with_incl with a pattern of
\* the caller's choice
CallLiquidHoldupWithIncl ==
    /\ horz_liquid_holdup = None
    /\ \E pattern \in FlowPattern :
          /\ InRange(pattern, froude_number, no_slip_liquid_fraction)
          /\ holdup_call' =
                 Some([pattern |-> pattern,
                       result |-> BeggsAndBrill_calc_liquid_holdup_with_incl(
                           pattern, froude_number, no_slip_liquid_fraction,
                           liquid_velocity_number, inclination)])
    /\ UNCHANGED <<tprVars, pvtVars, frictionVars,
                   no_slip_liquid_fraction, froude_number,
                   liquid_velocity_number, inclination, flow_pattern,
                   liquid_holdup, horz_liquid_holdup>>

NextHoldup ==
    CalcFlowPattern \/ CalcLiquidHoldup \/ CalcHorzLiquidHoldup
        \/ FormulasHorzLiquidHoldup \/ CallLiquidHoldupWithIncl

SpecHoldup == InitHoldup /\ [][NextHoldup]_vars

---------------------------------------------------------------------------
(* Claims about the flow pattern and the horizontal holdup *)

\* the patterns _calc_flow_pattern has a return statement for
Emitted == {"distributed", "intermittent", "transition", "segregated"}

\* C8: _calc_flow_pattern returns one of the four patterns for every
\* (Fr, lambda), the first whose test holds: distributed iff Fr >= Fr1 or
\* Fr >= Fr4; otherwise intermittent iff Fr > Fr3; otherwise transition iff
\* Fr > Fr2; otherwise segregated.
C8_FirstMatch ==
    flow_pattern # None =>
        LET t  == BeggsAndBrill_calc_transition_froude_numbers(
                      no_slip_liquid_fraction)
            fr == froude_number
            p  == flow_pattern[1]
            first == fr >= t[1] \/ fr >= t[4]
        IN  /\ p \in Emitted
            /\ (p = "distributed") <=> first
            /\ (p = "intermittent") <=> (~first /\ fr > t[3])
            /\ (p = "transition") <=> (~first /\ ~(fr > t[3]) /\ fr > t[2])
            /\ (p = "segregated") <=> (~first /\ ~(fr > t[3]) /\ ~(fr > t[2]))

\* a Froude number exactly equal to Fr4, below Fr1, classified distributed
C8_Witness ==
    LET t == BeggsAndBrill_calc_transition_froude_numbers(
                 no_slip_liquid_fraction)
    IN  /\ pc = "holdup"
        /\ flow_pattern = Some("distributed")
        /\ froude_number = t[4]
        /\ froude_number < t[1]

C10_HoldupFloor ==
    (horz_liquid_holdup # None /\ horz_liquid_holdup[1].pattern \in Emitted)
        => /\ horz_liquid_holdup[1].value[1] = "ok"
           /\ horz_liquid_holdup[1].value[2]
                  >= Fraction(no_slip_liquid_fraction)

\* C10 (amended): for segregated, intermittent and distributed both
\* BeggsAndBrill._calc_horz_liquid_holdup and formulas.horz_liquid_holdup
\* return a value at least the no-slip liquid fraction; for transition
\* formulas.horz_liquid_holdup returns the blend, at least the no-slip
\* liquid fraction, while BeggsAndBrill._calc_horz_liquid_holdup raises
\* KeyError, and update_conditions never calls it with transition.
C10_HoldupFloorAmended ==
    /\ (horz_liquid_holdup # None /\ horz_liquid_holdup[1].pattern \in Emitted)
          => IF /\ horz_liquid_holdup[1].of = "BeggsAndBrill"
                /\ horz_liquid_holdup[1].pattern = "transition"
             THEN horz_liquid_holdup[1].value = KeyError
             ELSE /\ horz_liquid_holdup[1].value[1] = "ok"
                  /\ horz_liquid_holdup[1].value[2]
                         >= Fraction(no_slip_liquid_fraction)
    /\ liquid_holdup # None =>
          /\ "transition" \notin liquid_holdup[1].horz_keys
          /\ liquid_holdup[1].value[1] = "ok"

\* the blend of formulas.horz_liquid_holdup fell below the no-slip liquid
\* fraction of a transition flow and was raised to it
C10_Witness ==
    /\ horz_liquid_holdup # None
    /\ horz_liquid_holdup[1].of = "formulas"
    /\ horz_liquid_holdup[1].pattern = "transition"
    /\ flow_pattern = Some("transition")
    /\ horz_liquid_holdup[1].value = Ok(Fraction(no_slip_liquid_fraction))

---------------------------------------------------------------------------
(* Claims about the inclined holdup *)

\* the results of _calc_liquid_holdup_with_incl the state holds: the one of
\* update_conditions and the one of the direct call, for the emitted patterns
HoldupResults ==
    (IF liquid_holdup # None THEN {liquid_holdup[1]} ELSE {})
        \cup (IF holdup_call # None /\ holdup_call[1].pattern \in Emitted
              THEN {holdup_call[1].result} ELSE {})

\* C11: for each of the four patterns, transition included,
\* _calc_liquid_holdup_with_incl returns a value between lambda and 1 when
\* the inclination is not negative and between 0 and lambda when it is
\* negative; with lambda = 1 and a non-negative inclination it returns 1.
C11_InclinedClamp ==
    \A r \in HoldupResults :
        /\ r.value[1] = "ok"
        /\ IF inclination >= 0
           THEN /\ Fraction(no_slip_liquid_fraction) <= r.value[2]
                /\ r.value[2] <= Scale
           ELSE /\ 0 <= r.value[2]
                /\ r.value[2] <= Fraction(no_slip_liquid_fraction)
        /\ (no_slip_liquid_fraction = 10 /\ inclination >= 0)
               => r.value[2] = Scale

\* the blend of a transition flow going uphill came out strictly between
\* the two ends of the clamp
C11_Witness ==
    /\ holdup_call # None
    /\ holdup_call[1].pattern = "transition"
    /\ inclination > 0
    /\ holdup_call[1].result.value[1] = "ok"
    /\ holdup_call[1].result.value[2] > Fraction(no_slip_liquid_fraction)
    /\ holdup_call[1].result.value[2] < Scale

\* the results of _calc_liquid_holdup_with_incl for the transition pattern
\* at a Froude number the classifier calls transition
TransitionResults ==
    (IF liquid_holdup # None /\ flow_pattern = Some("transition")
     THEN {liquid_holdup[1]} ELSE {})
        \cup (IF /\ holdup_call # None
                 /\ holdup_call[1].pattern = "transition"
                 /\ BeggsAndBrill_calc_flow_pattern(
                        froude_number, no_slip_liquid_fraction) = "transition"
              THEN {holdup_call[1].result} ELSE {})

\* H_L(theta) of a pattern with constants of its own, from the formulas of
\* the correlation: the floored horizontal holdup, the inclination
\* correction with the (d, e, f, g) of the pattern, the clamp
OwnHoldup(pattern) ==
    LET lam == no_slip_liquid_fraction
        a   == HORZ_LIQUID_HOLDUP_CONSTANTS[pattern]
        h0  == Max(Exp(a[1] + (a[2] * LnTenth[lam]) \div Scale
                            - (a[3] * froude_number) \div Scale),
                   Fraction(lam))
    IN  InclinedHoldup(pattern, pattern, h0, froude_number, lam,
                       liquid_velocity_number, inclination)

\* C12: the holdup of the transition pattern is A * H_seg + (1 - A) * H_int
\* with A = (Fr3 - Fr) / (Fr3 - Fr2), H_seg and H_int being the segregated
\* and the intermittent holdup of the same arguments, each with its own
\* constants, inclination correction and clamp; and transition is a key of
\* neither constant table, whatever the pattern of the call.
C12_TransitionBlend ==
    /\ \A r \in TransitionResults :
          LET t == BeggsAndBrill_calc_transition_froude_numbers(
                       no_slip_liquid_fraction)
              A == ((Exp(t[3]) - Exp(froude_number)) * Scale)
                       \div (Exp(t[3]) - Exp(t[2]))
          IN  /\ r.value = Ok((A * OwnHoldup("segregated")
                                 + (Scale - A) * OwnHoldup("intermittent"))
                                    \div Scale)
              /\ r.horz_keys = {"segregated", "intermittent"}
              /\ r.incl_keys = {"segregated", "intermittent"}
    /\ \A r \in HoldupResults :
          "transition" \notin r.horz_keys \cup r.incl_keys

\* a transition flow in an inclined tubing, its two constituents different
\* and both weights positive
C12_Witness ==
    /\ flow_pattern = Some("transition")
    /\ liquid_holdup # None
    /\ inclination # 0
    /\ OwnHoldup("segregated") # OwnHoldup("intermittent")
    /\ BlendWeight(froude_number, no_slip_liquid_fraction) > 0
    /\ BlendWeight(froude_number, no_slip_liquid_fraction) < Scale

---------------------------------------------------------------------------
(* The PVT correlations (correlations.py, helpers.py), called directly.

   The fluid of the calls is the fixture of test/test_correlations.py:
   temperature 175 F, gas_specific_gravity 0.65, oil_api_gravity 25; the
   numbers below that depend on them are worked out for these values.
   Pressures count half psi as before.  Solubilities and gas liquid ratios
   (scf/stb) and formation volume factors (bbl/stb) are in units of 1/10000,
   compressibilities in units of 1e-8 psi-1, water_cut in percent. *)

ValueError == <<"ValueError">>
ZeroDivisionError == <<"ZeroDivisionError">>

\* natural logarithm of x / Scale, times Scale, for x >= Scale:
\* x = m * 2 ** n with Scale <= m < 2 * Scale, ln m by the series of
\* 2 * atanh((m - 1) / (m + 1))
Ln(x) ==
    LET n  == CHOOSE k \in 0..17 :
                  Scale * 2 ^ k <= x /\ (k = 17 \/ x < Scale * 2 ^ (k + 1))
        m  == x \div 2 ^ n
        y  == ((m - Scale) * Scale) \div (m + Scale)
        y2 == (y * y) \div Scale
        y3 == (y * y2) \div Scale
        y5 == (y3 * y2) \div Scale
        y7 == (y5 * y2) \div Scale
    IN  6931 * n + 2 * (y + y3 \div 3 + y5 \div 5 + y7 \div 7)

\* _pressure + 14.7, in tenths of psi
AbsPressure(p) == 5 * p + 147

\* correlations.py lines 29-30 and 69-70 (oil.py lines 71-72)
ClampPressure_Off(p, pb) == p
ClampPressure(p, pb) == IF p > pb THEN pb ELSE p

\* correlations.gas_solubility_in_oil: exponent = 0.15325, so
\* ln(10 ** exponent) = 0.3529, and ln 0.65 = -0.4308
gas_solubility_in_oil(p, pb) ==
    LET first_term == ((AbsPressure(ClampPressure(p, pb)) * 1000) \div 182)
                          * 10 + 14000
    IN  Exp(-4308 + (12048 * (Ln(first_term) + 3529)) \div Scale)

\* correlations.gas_solubility_in_water: at 175 F term_a = 2.1529,
\* term_b = 4.855e-3 and term_c = -2.045e-7
gas_solubility_in_water(p, pb) ==
    LET abs_pressure == AbsPressure(ClampPressure(p, pb))
        hundreds     == abs_pressure \div 100
    IN  21529 + (4855 * (abs_pressure \div 10)) \div 100
              - (((hundreds * hundreds) \div 100) * 2045) \div 100

\* correlations.py lines 148 and 232 (oil.py line 100)
BelowBubblePoint_Inclusive(p, pb) == p <= pb
BelowBubblePoint(p, pb) == p < pb

\* correlations.oil_compressibility: the numerator is
\* 1125.25 + 5 * Rsob for the fluid above
oil_compressibility(p, pb, rsob) ==
    IF BelowBubblePoint(p, pb)
    THEN ValueError
    ELSE Ok(((112525 + 5 * (rsob \div 100)) * 100) \div AbsPressure(p))

\* correlations.water_compressibility: at 175 F the three terms add up to
\* 3.2162 - 7.748e-5 * (_pressure + 14.7)
water_compressibility(p, pb, rswb) ==
    IF BelowBubblePoint(p, pb)
    THEN ValueError
    ELSE Ok(((32162 - (7748 * AbsPressure(p)) \div 10 ^ 5)
                * (Scale + (89 * rswb) \div Scale)) \div 10 ^ 6)

\* the exponent _compressibility * (_bubble_point - _pressure), times Scale
Exponent_Gauge(c, p, pb) == (c * (0 - p)) \div (2 * Scale)
Exponent(c, p, pb) == (c * (pb - p)) \div (2 * Scale)

\* correlations.oil_formation_volume_factor, lines 195-199: the saturated
\* correlation; sqrt(0.65 / 0.90415) = 0.8479 and 1.25 * 175 = 218.75
SaturatedOilFVF(rso) ==
    LET base == ((rso \div 10) * 8479) \div 1000 + 2187500
    IN  9759 + (12 * Exp((12000 * Ln(base)) \div Scale)) \div (10 * Scale)

\* correlations.oil_formation_volume_factor
oil_formation_volume_factor(p, pb, rso, co) ==
    IF p > pb
    THEN (SaturatedOilFVF(rso) * Exp(Exponent(co, p, pb))) \div Scale
    ELSE SaturatedOilFVF(rso)

\* correlations.water_formation_volume_factor, lines 265-267 and 270/274:
\* 1 + 1.2e-4 * 115 + 1e-6 * 115 ** 2 = 1.0270, less 3.33e-6 * abs pressure
SaturatedWaterFVF(p) == 10270 - (333 * AbsPressure(p)) \div 10 ^ 5

\* correlations.water_formation_volume_factor
water_formation_volume_factor(p, pb, cw) ==
    IF p >= pb
    THEN (SaturatedWaterFVF(pb) * Exp(Exponent(cw, p, pb))) \div Scale
    ELSE SaturatedWaterFVF(p)

\* helpers.free_gas_liquid_ratio, on numbers
helpers_free_gas_liquid_ratio_Strict(p, pb, rso, rsw, wc, glrp) ==
    IF p > pb
    THEN 0
    ELSE glrp - (rso * (100 - wc)) \div 100 - (rsw * wc) \div 100
helpers_free_gas_liquid_ratio(p, pb, rso, rsw, wc, glrp) ==
    IF p >= pb
    THEN 0
    ELSE glrp - (rso * (100 - wc)) \div 100 - (rsw * wc) \div 100

\* the idle state of the traverse
TprIdle ==
    /\ tubing = [length |-> 0]
    /\ well_head_pressure = 0
    /\ pb_input = 0
    /\ gradTab = <<>>
    /\ bubble_point = None
    /\ flow_rates = <<>>
    /\ pressures = <<>>
    /\ idx = 0
    /\ pressure = 0 /\ depth = 0 /\ last_pressure = 0 /\ last_depth = 0
    /\ delta_p = 0 /\ last_limit = 0 /\ limit = 0
    /\ mixture = NewMixture
    /\ correlation = NewCorrelation
    /\ error = NoError
    /\ iters = 0
    /\ workers = <<>>

\* Oil.__init__ and Water.__init__; pressure is the one of the last update
NewSnapshots ==
    [pressure |-> None,
     oil |-> [gas_solubility |-> None, compressibility |-> None,
              formation_volume_factor |-> None],
     water |-> [gas_solubility |-> None, compressibility |-> None,
                formation_volume_factor |-> None],
     gas |-> [formation_volume_factor |-> None],
     tubing_diameter |-> None,
     mixture |-> [prod_flow_rate |-> None, liquid_velocity |-> None,
                  mixture_velocity |-> None,
                  no_slip_liquid_fraction |-> None]]

\* Oil.update_conditions, oil.py lines 36-49, in numbers; a ValueError of
\* calc_compressibility would leave it after the assignment of line 36
OilSnapshot(oil, p, pb) ==
    LET gs == gas_solubility_in_oil(p, pb)
        result == oil_compressibility(p, pb, gas_solubility_in_oil(pb, pb))
    IN  IF p >= pb /\ result = ValueError
        THEN [oil EXCEPT !.gas_solubility = Some(gs)]
        ELSE LET co == IF p >= pb THEN Some(result[2])
                                  ELSE oil.compressibility
             IN  [gas_solubility |-> Some(gs),
                  compressibility |-> co,
                  formation_volume_factor |->
                      Some(oil_formation_volume_factor(p, pb, gs, co[1]))]

\* Water.update_conditions, water.py lines 19-26, in numbers
WaterSnapshot(water, p, pb) ==
    LET gs == gas_solubility_in_water(p, pb)
        result == water_compressibility(p, pb,
                                        gas_solubility_in_water(pb, pb))
    IN  IF p >= pb /\ result = ValueError
        THEN [water EXCEPT !.gas_solubility = Some(gs)]
        ELSE LET co == IF p >= pb THEN Some(result[2])
                                  ELSE water.compressibility
             IN  [gas_solubility |-> Some(gs),
                  compressibility |-> co,
                  formation_volume_factor |->
                      Some(water_formation_volume_factor(p, pb, co[1]))]

\* Mixture.in_situ_flow_rate, 1e-6 ft3/s: fraction and formation volume
\* factor in 1e-4, the flow rate in bpd, 0.000064984 taken as 0.000065
Mixture_in_situ_flow_rate(fvf, fraction, prod_flow_rate) ==
    (((((fraction * prod_flow_rate) \div Scale) * fvf) \div 100) * 65)
        \div 100

\* Mixture.superficial_velocity, 1e-4 ft/s: the diameter in 1e-3 in, the
\* area pi * (d / 12) ^ 2 / 4 in 1e-4 ft2
Mixture_superficial_velocity(in_situ_flow_rate, tubing_diameter) ==
    LET area == ((((tubing_diameter * tubing_diameter) \div 1000) * 3142)
                     \div 576) \div 100
    IN  (in_situ_flow_rate * 100) \div area

\* helpers.no_slip_fraction: the quotient of the two velocities, 1e-4
helpers_no_slip_fraction_Gas(fluid_velocity, total_velocity) == IF total_velocity = 0 THEN ZeroDivisionError ELSE Ok(0)
helpers_no_slip_fraction(fluid_velocity, total_velocity) ==
    IF total_velocity = 0
    THEN ZeroDivisionError
    ELSE IF total_velocity > 0
         THEN Ok((fluid_velocity * Scale) \div total_velocity)
         ELSE Ok(0 - (fluid_velocity * Scale) \div (0 - total_velocity))

\* the superficial velocity of the free gas, mixture.py lines 34-53
GasVelocity(oil, water, bg, p, pb, wc, glrp, d, q) ==
    Mixture_superficial_velocity(
        Mixture_in_situ_flow_rate(
            bg,
            helpers_free_gas_liquid_ratio(p, pb, oil.gas_solubility[1],
                                          water.gas_solubility[1], wc, glrp),
            q),
        d)

\* the superficial velocity of the liquid, mixture.py lines 47-57
LiquidVelocity(oil, water, wc, d, q) ==
    Mixture_superficial_velocity(
        Mixture_in_situ_flow_rate(oil.formation_volume_factor[1],
                                  (100 - wc) * 100, q), d)
        + Mixture_superficial_velocity(
              Mixture_in_situ_flow_rate(water.formation_volume_factor[1],
                                        wc * 100, q), d)

\* Mixture.update_conditions, mixture.py lines 34-63, after the update of
\* the phases: a ZeroDivisionError of no_slip_fraction leaves it after the
\* assignments of lines 57 and 58
MixtureSnapshot(last, oil, water, bg, p, pb, wc, glrp, d, q) ==
    LET liquid == LiquidVelocity(oil, water, wc, d, q)
        total == GasVelocity(oil, water, bg, p, pb, wc, glrp, d, q) + liquid
        fraction == helpers_no_slip_fraction(liquid, total)
    IN  [prod_flow_rate |-> Some(q),
         liquid_velocity |-> Some(liquid),
         mixture_velocity |-> Some(total),
         no_slip_liquid_fraction |->
             IF fraction[1] = "ok" THEN Some(fraction[2])
                                   ELSE last.no_slip_liquid_fraction]

\* an update of the phases at (p, pb) ends in the ValueError of a
\* compressibility
UpdateRaises(p, pb) ==
    /\ p >= pb
    /\ \/ oil_compressibility(p, pb, gas_solubility_in_oil(pb, pb))
               = ValueError
       \/ water_compressibility(p, pb, gas_solubility_in_water(pb, pb))
               = ValueError

\* pressures and bubble points of the calls, half psi: around the bubble
\* point of the fixture (83.4 psig) and around a second one
PvtPressures == {0, 100, 166, 167, 168, 399, 400, 401, 1000}
PvtBubblePoints == {167, 400}
WaterCuts == {0, 30, 100}
ProductionGasLiquidRatios == {10 * Scale, 600 * Scale}
\* the compressibility handed to a formation volume factor, 1e-8 psi-1
Compressibilities == {0, 330, 12000, 10 ^ 6}
\* gas.formation_volume_factor of the update, 1e-4 bbl/scf (about 500 and
\* 0 psig), the tubing diameter in 1e-3 in and the flow rate in bpd
GasFormationVolumeFactors == {58, 2175}
TubingDiameters == {1995, 2992}
ProdFlowRates == {100, 300}

InitPVT ==
    /\ TprIdle
    /\ pc = "pvt"
    /\ HoldupIdle
    /\ conditions \in
           [pressure : PvtPressures, bubble_point : PvtBubblePoints,
            water_cut : WaterCuts,
            production_gas_liquid_ratio : ProductionGasLiquidRatios,
            compressibility : Compressibilities,
            gas_formation_volume_factor : {58},
            tubing_diameter : {1995},
            flow_rate : {100}]
    /\ pvt_call = None
    /\ bisection = None
    /\ snapshots = NewSnapshots

\* the result of a call at the conditions of the behaviour; a behaviour
\* has direct calls or updates of the two objects
Called(fn, value) ==
    /\ snapshots = NewSnapshots
    /\ pvt_call' = Some([fn |-> fn, value |-> value])
    /\ UNCHANGED <<tprVars, holdupVars, frictionVars, conditions,
                   bisection, snapshots>>

CallGasSolubilityInOil ==
    Called("gas_solubility_in_oil",
           gas_solubility_in_oil(conditions.pressure, conditions.bubble_point))

CallGasSolubilityInWater ==
    Called("gas_solubility_in_water",
           gas_solubility_in_water(conditions.pressure,
                                   conditions.bubble_point))

\* the solubilities at the bubble point, as the callers pass them
RsoAtBubblePoint ==
    gas_solubility_in_oil(conditions.bubble_point, conditions.bubble_point)
RswAtBubblePoint ==
    gas_solubility_in_water(conditions.bubble_point, conditions.bubble_point)

CallOilCompressibility ==
    Called("oil_compressibility",
           oil_compressibility(conditions.pressure, conditions.bubble_point,
                               RsoAtBubblePoint))

CallWaterCompressibility ==
    Called("water_compressibility",
           water_compressibility(conditions.pressure,
                                 conditions.bubble_point, RswAtBubblePoint))

CallOilFormationVolumeFactor ==
    Called("oil_formation_volume_factor",
           oil_formation_volume_factor(
               conditions.pressure, conditions.bubble_point,
               gas_solubility_in_oil(conditions.pressure,
                                     conditions.bubble_point),
               conditions.compressibility))

CallWaterFormationVolumeFactor ==
    Called("water_formation_volume_factor",
           water_formation_volume_factor(
               conditions.pressure, conditions.bubble_point,
               conditions.compressibility))

CallFreeGasLiquidRatio ==
    Called("free_gas_liquid_ratio",
           helpers_free_gas_liquid_ratio(
               conditions.pressure, conditions.bubble_point,
               gas_solubility_in_oil(conditions.pressure,
                                     conditions.bubble_point),
               gas_solubility_in_water(conditions.pressure,
                                       conditions.bubble_point),
               conditions.water_cut, conditions.production_gas_liquid_ratio))

\* Mixture.update_conditions, mixture.py lines 30-63: the gas, the oil and
\* the water object updated at one pressure, then the velocities
UpdatePhases ==
    /\ pvt_call = None
    /\ \E p \in PvtPressures :
          LET pb == conditions.bubble_point
              bg == conditions.gas_formation_volume_factor
              d == conditions.tubing_diameter
              q == conditions.flow_rate
              oil == OilSnapshot(snapshots.oil, p, pb)
              water == WaterSnapshot(snapshots.water, p, pb)
          IN  snapshots' =
                  [pressure |-> Some(p),
                   oil |-> oil,
                   water |-> water,
                   gas |-> [formation_volume_factor |-> Some(bg)],
                   tubing_diameter |-> Some(d),
                   mixture |->
                       IF UpdateRaises(p, pb)
                       THEN snapshots.mixture
                       ELSE MixtureSnapshot(
                                snapshots.mixture, oil, water, bg, p, pb,
                                conditions.water_cut,
                                conditions.production_gas_liquid_ratio,
                                d, q)]
    /\ UNCHANGED <<tprVars, holdupVars, frictionVars, conditions,
                   pvt_call, bisection>>

NextPVT ==
    \/ CallGasSolubilityInOil
    \/ CallGasSolubilityInWater
    \/ CallOilCompressibility
    \/ CallWaterCompressibility
    \/ CallOilFormationVolumeFactor
    \/ CallWaterFormationVolumeFactor
    \/ CallFreeGasLiquidRatio
    \/ UpdatePhases

SpecPVT == InitPVT /\ [][NextPVT]_vars

\* updates of one Mixture only, over the gas formation volume factors,
\* tubing diameters and flow rates
InitMixture ==
    /\ TprIdle
    /\ pc = "mixture"
    /\ HoldupIdle
    /\ conditions \in
           [pressure : {0}, bubble_point : PvtBubblePoints,
            water_cut : WaterCuts,
            production_gas_liquid_ratio : ProductionGasLiquidRatios,
            compressibility : {0},
            gas_formation_volume_factor : GasFormationVolumeFactors,
            tubing_diameter : TubingDiameters,
            flow_rate : ProdFlowRates]
    /\ pvt_call = None
    /\ bisection = None
    /\ snapshots = NewSnapshots

NextMixture == UpdatePhases

SpecMixture == InitMixture /\ [][NextMixture]_vars

\* the last direct call was of fn
CalledFn(fn) == pvt_call # None /\ pvt_call[1].fn = fn

\* GLRp - Rso * (1 - WC) - Rsw * WC at the conditions of the behaviour
GasNotInSolution ==
    conditions.production_gas_liquid_ratio
        - (gas_solubility_in_oil(conditions.pressure,
                                 conditions.bubble_point)
               * (100 - conditions.water_cut)) \div 100
        - (gas_solubility_in_water(conditions.pressure,
                                   conditions.bubble_point)
               * conditions.water_cut) \div 100

\* C13: free_gas_liquid_ratio returns 0 whenever pressure >= bubble_point,
\* the pressure equal to the bubble point included, and
\* GLRp - Rso * (1 - WC) - Rsw * WC whenever pressure < bubble_point.
C13_FreeGasLiquidRatio ==
    CalledFn("free_gas_liquid_ratio") =>
        /\ conditions.pressure >= conditions.bubble_point =>
               pvt_call[1].value = 0
        /\ conditions.pressure < conditions.bubble_point =>
               pvt_call[1].value = GasNotInSolution

\* a call at the bubble point exactly, where the expression of the other
\* branch is not 0
C13_Witness ==
    /\ CalledFn("free_gas_liquid_ratio")
    /\ conditions.pressure = conditions.bubble_point
    /\ GasNotInSolution # 0
    /\ pvt_call[1].value = 0

\* the solubility functions by the name of the call
Solubility(fn, p, pb) ==
    IF fn = "gas_solubility_in_oil"
    THEN gas_solubility_in_oil(p, pb)
    ELSE gas_solubility_in_water(p, pb)

SolubilityFns == {"gas_solubility_in_oil", "gas_solubility_in_water"}

\* C14: for every pressure > bubble_point, gas solubility in oil and gas
\* solubility in water return exactly the value they return at
\* pressure == bubble_point; for pressure <= bubble_point the value is the
\* one computed at the given pressure.
C14_SolubilityClamp ==
    \A fn \in SolubilityFns :
        CalledFn(fn) =>
            LET p  == conditions.pressure
                pb == conditions.bubble_point
            IN  IF p > pb
                THEN pvt_call[1].value = Solubility(fn, pb, pb)
                ELSE pvt_call[1].value = Solubility(fn, p, p)

\* a call above the bubble point whose value is the one at the bubble point
\* and not the one the correlation has at the pressure of the call
C14_Witness ==
    /\ CalledFn("gas_solubility_in_water")
    /\ conditions.pressure > conditions.bubble_point
    /\ pvt_call[1].value =
           gas_solubility_in_water(conditions.bubble_point,
                                   conditions.bubble_point)
    /\ pvt_call[1].value #
           gas_solubility_in_water(conditions.pressure, conditions.pressure)
    /\ gas_solubility_in_oil(conditions.pressure, conditions.bubble_point) #
           gas_solubility_in_oil(conditions.pressure, conditions.pressure)

CompressibilityFns == {"oil_compressibility", "water_compressibility"}

\* C15: oil and water compressibility raise ValueError if and only if
\* pressure < bubble_point; at pressure == bubble_point and above they
\* return a value and raise nothing.
C15_CompressibilityDomain ==
    \A fn \in CompressibilityFns :
        CalledFn(fn) =>
            /\ pvt_call[1].value = ValueError
                   <=> conditions.pressure < conditions.bubble_point
            /\ conditions.pressure >= conditions.bubble_point =>
                   /\ pvt_call[1].value[1] = "ok"
                   /\ pvt_call[1].value[2] > 0

\* a call of oil_compressibility at the bubble point exactly: a value
C15_Witness ==
    /\ CalledFn("oil_compressibility")
    /\ conditions.pressure = conditions.bubble_point
    /\ pvt_call[1].value[1] = "ok"

\* the two objects were last updated below the bubble point
UpdatedBelowBubblePoint ==
    /\ snapshots.pressure # None
    /\ snapshots.pressure[1] < conditions.bubble_point

\* C16 (as claimed): whenever a phase snapshot is updated at
\* pressure < bubble_point, the compressibility value used for that update
\* is 0 and the formation volume factor is the saturated correlation with no
\* exponential correction applied.
C16_ZeroBelowBubblePoint ==
    UpdatedBelowBubblePoint =>
        /\ snapshots.oil.compressibility = Some(0)
        /\ snapshots.water.compressibility = Some(0)
        /\ snapshots.oil.formation_volume_factor =
               Some(SaturatedOilFVF(snapshots.oil.gas_solubility[1]))
        /\ snapshots.water.formation_volume_factor =
               Some(SaturatedWaterFVF(snapshots.pressure[1]))

\* C17: at pressure exactly equal to bubble_point the compressibilities are
\* defined, and the oil and the water formation volume factor, whatever
\* compressibility they are given, equal the saturated correlation at that
\* pressure: the exponent c * (Pb - P) is 0.
C17_ContinuousAtBubblePoint ==
    conditions.pressure = conditions.bubble_point =>
        /\ \A fn \in CompressibilityFns :
               CalledFn(fn) => pvt_call[1].value # ValueError
        /\ (\E fn \in {"oil_formation_volume_factor",
                         "water_formation_volume_factor"} : CalledFn(fn)) =>
               Exponent(conditions.compressibility, conditions.pressure,
                        conditions.bubble_point) = 0
        /\ CalledFn("oil_formation_volume_factor") =>
               LET saturated == SaturatedOilFVF(gas_solubility_in_oil(
                                    conditions.pressure, conditions.pressure))
               IN  /\ pvt_call[1].value = saturated
                   /\ (saturated * Exp(Exponent(conditions.compressibility,
                                                conditions.pressure,
                                                conditions.bubble_point)))
                          \div Scale = saturated
        /\ CalledFn("water_formation_volume_factor") =>
               pvt_call[1].value = SaturatedWaterFVF(conditions.pressure)

\* the water formation volume factor, which takes the branch with the
\* exponential at the bubble point, called there with a compressibility
\* that changes the value at any other pressure
C17_Witness ==
    /\ CalledFn("water_formation_volume_factor")
    /\ conditions.pressure = conditions.bubble_point
    /\ conditions.compressibility = 10 ^ 6
    /\ pvt_call[1].value = SaturatedWaterFVF(conditions.pressure)
    /\ water_formation_volume_factor(conditions.pressure + 1,
                                     conditions.bubble_point,
                                     conditions.compressibility)
           # SaturatedWaterFVF(conditions.bubble_point)

---------------------------------------------------------------------------
(* The snapshot of the shared Mixture during simulate *)

\* a field holding a value computed at another pressure than p
Stale(field, p) == field # None /\ field[1] # p

\* the mixture without the two fields that are assigned under a condition
Unconditional(m) ==
    [m EXCEPT !.oil.compressibility = None, !.water.compressibility = None]

\* C18 (as claimed): after every Mixture.update_conditions(pressure, ...)
\* call, every derived field of the mixture and of its gas, oil and water
\* snapshots holds the value computed from that call's pressure; no derived
\* field keeps a value written by an earlier call at a different pressure.
C18_NoStaleField ==
    mixture.prod_flow_rate # None =>
        LET p == mixture.gas.density[1]
            fresh == Mixture_update_conditions(
                         NewMixture, p, bubble_point[1],
                         mixture.prod_flow_rate[1])
        IN  /\ Unconditional(mixture) = Unconditional(fresh)
            /\ ~Stale(mixture.oil.compressibility, p)
            /\ ~Stale(mixture.water.compressibility, p)

\* C20: simulate returns exactly one pressure per requested flow rate, in
\* the order of the flow rates: the i-th pressure is the traverse result of
\* the i-th flow rate, and the flow rates are in ascending order.
C20_OnePressurePerFlowRate ==
    pc = "returned" =>
        /\ Len(pressures) = Len(flow_rates)
        /\ Len(flow_rates) = NumSamples
        /\ \A i \in 1..Len(flow_rates) :
               /\ FreshTraverse(flow_rates[i]) = <<"ok", pressures[i]>>
               /\ \A j \in 1..Len(flow_rates) :
                      i < j => flow_rates[i] < flow_rates[j]

\* simulate has returned two pressures that differ, so that their order
\* shows
C20_Witness ==
    /\ pc = "returned"
    /\ Len(pressures) = NumSamples
    /\ pressures[1] # pressures[NumSamples]
    /\ FreshTraverse(flow_rates[1]) # <<"ok", pressures[NumSamples]>>

---------------------------------------------------------------------------
(* The bubble point bisection: correlations.mixture_bubble_point, the same
   loop as Mixture.bubble_point (flow/mixture.py lines 113-134).

   error is in units of 1/10000 scf/stb.  The floating-point loop ends on
   abs(error) <= 1e-10, a tolerance above the rounding error of its residual
   and far below the residual at any pressure that is not the bubble point.
   The residual of the model is exact to about 0.1 scf/stb (the half-psi
   grid of the pressures, the precision of Ln and Exp), and the tolerance
   is carried as 0.5 scf/stb.  The inputs below are ones for which the loop
   of the model and the floating-point loop agree on whether they end. *)

Tolerance == Scale \div 2

\* the number of iterations the cap of C19 stands for; the loop of the
\* model is cut there
IterationCap == 30

\* _production_gas_liquid_ratio, scf/stb
BisectionGasLiquidRatios == {0, 10, 100, 600, 40000}

\* lines 108-110: the residual at bubble_point, the solubilities evaluated
\* with pressure_high as their bubble point
Residual(p, high, wc, glrp) ==
    glrp - (gas_solubility_in_oil(p, high) \div 100) * (100 - wc)
         - (gas_solubility_in_water(p, high) \div 100) * wc

\* lines 94-97: pressure_low = 0, pressure_high = 100000, error = 1.0
InitBisection ==
    /\ TprIdle
    /\ pc = "bubble_point"
    /\ HoldupIdle
    /\ conditions = None
    /\ pvt_call = None
    /\ snapshots = None
    /\ \E glrp \in BisectionGasLiquidRatios, wc \in WaterCuts :
          bisection = [production_gas_liquid_ratio |-> glrp * Scale,
                       water_cut |-> wc,
                       at |-> "while",
                       pressure_low |-> 0,
                       pressure_high |-> 200000,
                       bubble_point |-> 0,
                       error |-> Scale,
                       iterations |-> 0]

\* line 99: bubble_point = (pressure_low + pressure_high) / 2
Midpoint_TwoThirds(low, high) == (low + 2 * high) \div 3
Midpoint(low, high) == (low + high) \div 2

\* lines 98-115: the loop test and one pass of the body
BisectIterate ==
    /\ bisection.at = "while"
    /\ Abs(bisection.error) > Tolerance
    /\ bisection.iterations < IterationCap
    /\ LET mid == Midpoint(bisection.pressure_low, bisection.pressure_high)
           err == Residual(mid, bisection.pressure_high,
                           bisection.water_cut,
                           bisection.production_gas_liquid_ratio)
       IN  bisection' =
               [bisection EXCEPT
                   !.bubble_point = mid,
                   !.error = err,
                   !.pressure_low = IF err > 0 THEN mid ELSE @,
                   !.pressure_high = IF err > 0 THEN @ ELSE mid,
                   !.iterations = @ + 1]
    /\ UNCHANGED <<tprVars, holdupVars, frictionVars, conditions,
                   pvt_call, snapshots>>

\* lines 98 and 117: the loop test fails, the function returns
BisectReturn ==
    /\ bisection.at = "while"
    /\ Abs(bisection.error) <= Tolerance
    /\ bisection' = [bisection EXCEPT !.at = "returned"]
    /\ UNCHANGED <<tprVars, holdupVars, frictionVars, conditions,
                   pvt_call, snapshots>>

NextBisection == BisectIterate \/ BisectReturn

SpecBisection == InitBisection /\ [][NextBisection]_vars

\* the interval can no longer be halved: the next passes recompute the same
\* bubble_point and the same error
Collapsed ==
    /\ bisection.pressure_high - bisection.pressure_low <= 1
    /\ bisection.bubble_point = bisection.pressure_low
    /\ Residual(bisection.pressure_low, bisection.pressure_high,
                bisection.water_cut,
                bisection.production_gas_liquid_ratio) = bisection.error

\* C19 (as claimed): the bisection always terminates: when the residual has
\* not reached the tolerance within the iteration cap, the solver stops and
\* reports an error instead of going on.
C19_BisectionTerminates ==
    (bisection.at = "while" /\ Abs(bisection.error) > Tolerance) =>
        /\ bisection.iterations < IterationCap
        /\ ~Collapsed

---------------------------------------------------------------------------
(* The two-phase friction factor: BeggsAndBrill._calc_friction_factor
   (flow/beggs_and_brill.py, the same text as Flow._calc_friction_factor of
   flow.py) and formulas.friction_factor.

   no_slip_liquid_fraction, liquid_holdup, the Moody factor, term_y and
   term_s are plain numbers in units of 1/10000.  A call ends with a value,
   <<"ok", v>>, or with the exception it raises; rational tells whether the
   quotient of ln(y) by the polynomial was evaluated. *)


\* math.log of x / Scale, times Scale; ValueError (math domain error) for
\* x <= 0
Log(x) ==
    IF x <= 0
    THEN ValueError
    ELSE IF x >= Scale THEN Ok(Ln(x))
                       ELSE Ok(0 - Ln((Scale * Scale) \div x))

\* term_y = no_slip_liquid_fraction / liquid_holdup ** 2
TermY(lam, holdup) ==
    IF holdup = 0
    THEN ZeroDivisionError
    ELSE Ok((lam * Scale) \div ((holdup * holdup) \div Scale))

\* -0.0523 + 3.182 ln y - 0.8725 ln(y) ** 2 + 0.01853 ln(y) ** 4
Polynomial(l) ==
    LET l2 == (l * l) \div Scale
        l4 == ((l2 \div 10) * (l2 \div 10)) \div 100
    IN  -523 + (3182 * l) \div 1000 - (8725 * l2) \div Scale
             + (1853 * l4) \div 10 ^ 5

\* ln(y) / polynomial, lines 318-325
Rational(y) ==
    LET l == Log(y)
    IN  IF l = ValueError
        THEN ValueError
        ELSE IF Polynomial(l[2]) = 0
             THEN ZeroDivisionError
             ELSE Ok((l[2] * Scale) \div Polynomial(l[2]))

\* line 316: term_y < 1.0 or term_y > 1.2
OutsideUnitBand_Always(y) == TRUE
OutsideUnitBand(y) == y < Scale \/ y > 12 * (Scale \div 10)

\* math.log(2.2 * term_y - 1.2), line 327 (formulas.py line 621)
SecondLog_Skipped(y) == Ok(0)
SecondLog(y) == Log((22 * y) \div 10 - 12 * (Scale \div 10))

\* 2.2 * term_y - 1.2 at term_y = 1.0: the doubles of the literals 2.2 and
\* 1.2 differ by 1 + 2 ^ -52, so the logarithm and the exponential of it
\* are one unit in the last place above 0 and 1; the excess of the
\* exponential over the value of the arithmetic of the model, in such units
LiteralExcess(y) == IF y = Scale THEN 1 ELSE 0

\* moody_friction_factor * math.exp(term_s)
Corrected(moody, s, rational, excess) ==
    [value |-> IF s[1] = "ok" THEN Ok((moody * Exp(s[2])) \div Scale) ELSE s,
     rational |-> rational,
     excess |-> IF s[1] = "ok" THEN excess ELSE 0]

\* an exception leaving a friction factor
FrictionRaised(e) == [value |-> e, rational |-> FALSE, excess |-> 0]

\* BeggsAndBrill._calc_friction_factor, lines 310-328: term_s = 0.0, the
\* quotient outside the band, inside it the logarithm evaluated and dropped
BeggsAndBrill_calc_friction_factor(lam, holdup, moody) ==
    LET y == TermY(lam, holdup)
    IN  IF y[1] # "ok"
        THEN FrictionRaised(y)
        ELSE IF OutsideUnitBand(y[2])
             THEN Corrected(moody, Rational(y[2]), TRUE, 0)
             ELSE IF SecondLog(y[2])[1] = "ok"
                  THEN Corrected(moody, Ok(0), FALSE, 0)
                  ELSE FrictionRaised(SecondLog(y[2]))

\* formulas.friction_factor, lines 617-632: the logarithm first, replaced
\* by the quotient outside the band
formulas_friction_factor(lam, holdup, moody) ==
    LET y == TermY(lam, holdup)
    IN  IF y[1] # "ok"
        THEN FrictionRaised(y)
        ELSE IF SecondLog(y[2])[1] # "ok"
             THEN FrictionRaised(SecondLog(y[2]))
             ELSE IF OutsideUnitBand(y[2])
                  THEN Corrected(moody, Rational(y[2]), TRUE, 0)
                  ELSE Corrected(moody, SecondLog(y[2]), FALSE,
                                 LiteralExcess(y[2]))

NoSlipLiquidFractions == {1000, 2500, 3000, 5000, 6000, 9000, 10000}
LiquidHoldups == {0, 5000, 9000, 10000}
MoodyFrictionFactors == {200, 500}

InitFriction ==
    /\ TprIdle
    /\ pc = "friction"
    /\ no_slip_liquid_fraction = 0
    /\ froude_number = 0
    /\ liquid_velocity_number = 0
    /\ inclination = 0
    /\ flow_pattern = None
    /\ liquid_holdup = None
    /\ horz_liquid_holdup = None
    /\ holdup_call = None
    /\ PvtIdle
    /\ friction \in
           [no_slip_liquid_fraction : NoSlipLiquidFractions,
            liquid_holdup : LiquidHoldups,
            moody_friction_factor : MoodyFrictionFactors,
            call : {None}]

\* a call of one of the revisions with the arguments of the behaviour
FrictionCalled(of, result) ==
    /\ friction' = [friction EXCEPT
                       !.call = Some([of |-> of, value |-> result.value,
                                      rational |-> result.rational,
                                      excess |-> result.excess])]
    /\ UNCHANGED <<tprVars, holdupVars, pvtVars>>

CallBeggsAndBrillFrictionFactor ==
    FrictionCalled("BeggsAndBrill",
                   BeggsAndBrill_calc_friction_factor(
                       friction.no_slip_liquid_fraction,
                       friction.liquid_holdup,
                       friction.moody_friction_factor))

CallFormulasFrictionFactor ==
    FrictionCalled("formulas",
                   formulas_friction_factor(
                       friction.no_slip_liquid_fraction,
                       friction.liquid_holdup,
                       friction.moody_friction_factor))

NextFriction == CallBeggsAndBrillFrictionFactor \/ CallFormulasFrictionFactor

SpecFriction == InitFriction /\ [][NextFriction]_vars

\* the last call was of the revision of
FrictionCallOf(of) == friction.call # None /\ friction.call[1].of = of

\* term_y of the behaviour, where liquid_holdup is not 0
Y == TermY(friction.no_slip_liquid_fraction, friction.liquid_holdup)[2]

InUnitBand == friction.liquid_holdup # 0 /\ Scale <= Y /\ Y <= 12000

\* C21: for every y = lambda / holdup ** 2 with 1.0 <= y <= 1.2,
\* BeggsAndBrill._calc_friction_factor evaluates no division by the
\* polynomial in ln(y), raises nothing and returns a finite factor; the
\* quotient is evaluated only when y < 1.0 or y > 1.2; at y = 1 the result
\* equals the Moody factor.
C21_UnitBandIsSafe ==
    FrictionCallOf("BeggsAndBrill") =>
        /\ InUnitBand =>
               /\ ~friction.call[1].rational
               /\ friction.call[1].value[1] = "ok"
               /\ friction.call[1].value[2] > 0
        /\ friction.call[1].rational =>
               friction.liquid_holdup # 0 /\ (Y < Scale \/ Y > 12000)
        /\ (friction.liquid_holdup # 0 /\ Y = Scale) =>
               friction.call[1].value = Ok(friction.moody_friction_factor)

\* a call inside the band, away from y = 1, where the polynomial is close
\* to its root: the Moody factor comes back
C21_Witness ==
    /\ FrictionCallOf("BeggsAndBrill")
    /\ InUnitBand
    /\ Y > Scale
    /\ ~friction.call[1].rational
    /\ friction.call[1].value = Ok(friction.moody_friction_factor)

---------------------------------------------------------------------------
(* The steps of a sample's traverse *)

\* the step just taken is a completed iteration of the while loop
IterationDone == pc = "while" /\ pc' = "while" /\ iters' = iters + 1

\* C22: one iteration of the traverse is a single Euler step with one
\* delta_p: last_depth' = depth, depth' = depth + delta_p / |dp_dz|,
\* last_pressure' = pressure, pressure' = pressure + delta_p, dp_dz being
\* the gradient at the pre-step pressure and delta_p the value in force
\* before the schedule check of the iteration; depth and pressure strictly
\* increase.
C22_SingleEulerStep ==
    [][IterationDone =>
          LET dp_dz == correlation'.grav_pressure_gradient
                           + correlation'.fric_pressure_gradient
          IN  /\ mixture'.gas.density = Some(pressure)
              /\ correlation' = BeggsAndBrill_update_conditions(mixture')
              /\ last_depth' = depth
              /\ depth' = depth + (4 * delta_p) \div Abs(dp_dz)
              /\ last_pressure' = pressure
              /\ pressure' = pressure + delta_p
              /\ depth' > depth
              /\ pressure' > pressure
              /\ delta_p' # delta_p => pressure' >= limit]_vars

\* an iteration has just advanced the pressure by 0.5 psi and the depth by
\* the matching amount while its schedule check raised delta_p to 1 psi
C22_Witness ==
    /\ pc = "while"
    /\ iters >= 1
    /\ pressure - last_pressure = 1
    /\ depth > last_depth
    /\ 4 \div Abs(correlation.grav_pressure_gradient
                     + correlation.fric_pressure_gradient)
           = depth - last_depth
    /\ delta_p = 2

\* a sample is being integrated
Integrating == pc = "while"

\* C23: throughout a sample's traverse the step size only coarsens: delta_p
\* never decreases from one iteration to the next, delta_p = last_limit / 10
\* in every state, and limit is either 2 * last_limit or 5 * last_limit,
\* alternating at each rotation, so limit > last_limit > 0.
C23_StepOnlyCoarsens ==
    /\ [](Integrating =>
             /\ 10 * delta_p = last_limit
             /\ limit \in {2 * last_limit, 5 * last_limit}
             /\ limit > last_limit
             /\ last_limit > 0)
    /\ [][IterationDone =>
             /\ delta_p' >= delta_p
             /\ last_limit' # last_limit =>
                    /\ delta_p' > delta_p
                    /\ last_limit' = limit
                    /\ (limit = 2 * last_limit) <=>
                           (limit' = 5 * last_limit')]_vars

\* two rotations done: the step is 5 psi between the limits 50 and 100 psi
C23_Witness ==
    /\ Integrating
    /\ iters >= 2
    /\ delta_p = 10
    /\ last_limit = 100
    /\ limit = 200

\* the first iteration of a sample has not been made yet
SampleStart == pc = "while" /\ iters = 0

\* C24: every flow-rate sample starts from the same integrator state,
\* however the sample before it ended: depth = 0, pressure = wellhead
\* pressure, last_depth = 0, last_pressure = 0, delta_p = 0.5,
\* last_limit = 5, limit = 10; and the bubble point the samples use is
\* computed once, before the first mixture update.
C24_SamplesStartAlike ==
    /\ [](SampleStart =>
             /\ depth = 0
             /\ pressure = well_head_pressure
             /\ last_depth = 0
             /\ last_pressure = 0
             /\ delta_p = 1
             /\ last_limit = 10
             /\ limit = 20)
    /\ [](Integrating => bubble_point = Some(pb_input))
    /\ [][bubble_point' # bubble_point =>
             /\ pc = "start"
             /\ bubble_point = None
             /\ mixture = NewMixture
             /\ mixture' = NewMixture]_vars

\* the second sample starts after a first one that ended with a coarser
\* step, at another pressure
C24_Witness ==
    /\ SampleStart
    /\ idx = 2
    /\ Len(pressures) = 1
    /\ mixture.gas.density # None
    /\ mixture.gas.density[1] > well_head_pressure + 1
    /\ delta_p = 1

---------------------------------------------------------------------------
(* The passes of the bisection *)

\* the step just taken is a pass of the loop body
PassDone ==
    /\ bisection.at = "while"
    /\ bisection'.iterations = bisection.iterations + 1

Width(b) == b.pressure_high - b.pressure_low

\* C25: in every iteration 0 <= pressure_low <= midpoint <= pressure_high
\* <= 100000; exactly one bound moves to the midpoint, pressure_low if the
\* residual is > 0 and pressure_high otherwise, so the interval width
\* halves (to the half psi of the grid); the solubilities are evaluated at
\* the midpoint without clamping, the clamp bound being pressure_high; the
\* value returned is a midpoint whose residual is within the tolerance.
C25_BisectionInvariant ==
    /\ [][PassDone =>
             LET low  == bisection.pressure_low
                 high == bisection.pressure_high
                 mid  == bisection'.bubble_point
                 err  == bisection'.error
             IN  /\ 0 <= low /\ low <= mid /\ mid <= high /\ high <= 200000
                 /\ 2 * mid \in {low + high - 1, low + high}
                 /\ ClampPressure(mid, high) = mid
                 /\ err = Residual(mid, high, bisection.water_cut,
                                   bisection.production_gas_liquid_ratio)
                 /\ IF err > 0
                    THEN /\ bisection'.pressure_low = mid
                         /\ bisection'.pressure_high = high
                    ELSE /\ bisection'.pressure_high = mid
                         /\ bisection'.pressure_low = low
                 /\ 2 * Width(bisection') \in
                        {Width(bisection) - 1, Width(bisection),
                         Width(bisection) + 1}]_vars
    /\ [](bisection.at = "returned" =>
             /\ bisection.iterations >= 1
             /\ bisection.bubble_point \in
                    {bisection.pressure_low, bisection.pressure_high}
             /\ Abs(bisection.error) <= Tolerance
             /\ bisection.error =
                    Residual(bisection.bubble_point,
                             bisection.pressure_high, bisection.water_cut,
                             bisection.production_gas_liquid_ratio))

\* the bisection has returned after both bounds have moved
C25_Witness ==
    /\ bisection.at = "returned"
    /\ bisection.iterations >= 10
    /\ 0 < bisection.pressure_low
    /\ bisection.pressure_high < 200000
    /\ bisection.bubble_point > 0

---------------------------------------------------------------------------
(* The recursion of the inclined holdup *)

\* the calls of _calc_liquid_holdup_with_incl of the state, each with the
\* pattern it was called with
HoldupCalls ==
    (IF liquid_holdup # None
     THEN {[pattern |-> flow_pattern[1], result |-> liquid_holdup[1]]}
     ELSE {})
        \cup (IF holdup_call # None THEN {holdup_call[1]} ELSE {})

\* C26: the recursion of _calc_liquid_holdup_with_incl has depth at most 1:
\* the transition branch calls the function exactly twice, once with
\* segregated and once with intermittent, and a call with any other pattern
\* makes no recursive call.
C26_RecursionDepthOne ==
    \A c \in HoldupCalls :
        IF c.pattern = "transition"
        THEN /\ c.result.calls = 2
             /\ c.result.horz_keys = {"segregated", "intermittent"}
             /\ \A p \in {"segregated", "intermittent"} :
                    BeggsAndBrill_calc_liquid_holdup_with_incl(
                        p, froude_number, no_slip_liquid_fraction,
                        liquid_velocity_number, inclination).calls = 0
        ELSE /\ c.result.calls = 0
             /\ c.result.horz_keys = {c.pattern}

\* a direct call with the transition pattern
C26_Witness ==
    /\ holdup_call # None
    /\ holdup_call[1].pattern = "transition"
    /\ holdup_call[1].result.calls = 2
    /\ holdup_call[1].result.value[1] = "ok"

---------------------------------------------------------------------------
(* The no-slip liquid fraction of the mixture *)

\* Mixture.update_conditions has returned or has left after line 58
MixtureUpdated ==
    /\ snapshots # None
    /\ snapshots.pressure # None
    /\ snapshots.mixture.mixture_velocity # None

\* the free gas-liquid ratio of the last update, mixture.py lines 34-41
FreeGasLiquidRatio ==
    helpers_free_gas_liquid_ratio(
        snapshots.pressure[1], conditions.bubble_point,
        snapshots.oil.gas_solubility[1], snapshots.water.gas_solubility[1],
        conditions.water_cut, conditions.production_gas_liquid_ratio)

\* the gas superficial velocity of the last update, mixture.py line 53
GasVelocityOfUpdate ==
    GasVelocity(snapshots.oil, snapshots.water,
                snapshots.gas.formation_volume_factor[1],
                snapshots.pressure[1], conditions.bubble_point,
                conditions.water_cut,
                conditions.production_gas_liquid_ratio,
                snapshots.tubing_diameter[1],
                snapshots.mixture.prod_flow_rate[1])

\* C27: after Mixture.update_conditions at a pressure at or above the
\* bubble point, with a positive flow rate, the free gas-liquid ratio is 0,
\* the gas superficial velocity is 0, mixture_velocity equals
\* liquid_velocity and no_slip_liquid_fraction is exactly 1; below the
\* bubble point no_slip_liquid_fraction is liquid_velocity over
\* mixture_velocity, the latter being the gas plus the liquid velocity.
C27_NoSlipLiquidFraction ==
    MixtureUpdated =>
        LET m == snapshots.mixture
        IN  /\ m.prod_flow_rate[1] > 0
            /\ m.mixture_velocity[1]
                   = GasVelocityOfUpdate + m.liquid_velocity[1]
            /\ IF snapshots.pressure[1] >= conditions.bubble_point
               THEN /\ FreeGasLiquidRatio = 0
                    /\ GasVelocityOfUpdate = 0
                    /\ m.liquid_velocity[1] > 0
                    /\ m.mixture_velocity = m.liquid_velocity
                    /\ m.no_slip_liquid_fraction = Some(Scale)
               ELSE m.mixture_velocity[1] # 0 =>
                        m.no_slip_liquid_fraction =
                            Some(helpers_no_slip_fraction(
                                     m.liquid_velocity[1],
                                     m.mixture_velocity[1])[2])

\* an update at the bubble point after one below it with free gas
C27_Witness ==
    /\ MixtureUpdated
    /\ snapshots.pressure[1] = conditions.bubble_point
    /\ snapshots.oil.compressibility # None
    /\ conditions.water_cut = 30
    /\ snapshots.mixture.liquid_velocity[1] > 0
    /\ snapshots.mixture.mixture_velocity = snapshots.mixture.liquid_velocity
    /\ snapshots.mixture.no_slip_liquid_fraction = Some(Scale)

---------------------------------------------------------------------------
(* The blend weight of the transition pattern *)

\* update_conditions has classified the flow as transition
ClassifiedTransition == flow_pattern = Some("transition")

\* Fr2 < Fr <= Fr3 and Fr3 - Fr2 > 0 at the arguments of the state
BetweenFr2AndFr3 ==
    LET t == BeggsAndBrill_calc_transition_froude_numbers(
                 no_slip_liquid_fraction)
    IN  /\ t[2] < froude_number
        /\ froude_number <= t[3]
        /\ Span(t) > 0

---------------------------------------------------------------------------
(* The precondition of the compressibility calculations *)

\* the compressibilities the Mixture of the traverse holds; each stands for
\* the pressure of the call that computed it
HeldCompressibilities ==
    {c \in {mixture.oil.compressibility, mixture.water.compressibility} :
        c # None}

\* C29: the compressibility precondition error is unreachable from a
\* traverse: Oil.update_conditions and Water.update_conditions call the
\* compressibility calculation only at pressure >= bubble_point, so no
\* pressure sequence of TPR.simulate raises the ValueError.
C29_NoPreconditionError ==
    /\ error.type # "ValueError"
    /\ bubble_point # None =>
           \A c \in HeldCompressibilities :
               ~BelowPrecondition(c[1], bubble_point[1])
    /\ pc = "while" =>
           ~PreconditionError(pressure, bubble_point[1])

\* a traverse that began below the bubble point and has computed the
\* compressibilities at or above it
C29_Witness ==
    /\ pc \in {"while", "for", "returned"}
    /\ bubble_point # None
    /\ well_head_pressure < bubble_point[1]
    /\ HeldCompressibilities # {}
    /\ error = NoError

---------------------------------------------------------------------------
(* The two revisions of the friction correction *)

\* the results of the two revisions at the arguments of the behaviour
OfBeggsAndBrill ==
    BeggsAndBrill_calc_friction_factor(
        friction.no_slip_liquid_fraction, friction.liquid_holdup,
        friction.moody_friction_factor)
OfFormulas ==
    formulas_friction_factor(
        friction.no_slip_liquid_fraction, friction.liquid_holdup,
        friction.moody_friction_factor)

\* a revision has been called with a term_y that is defined, and the call
\* recorded is the result of that revision
FrictionCompared ==
    /\ friction # None
    /\ friction.call # None
    /\ friction.liquid_holdup # 0
    /\ [k \in {"value", "rational", "excess"} |-> friction.call[1][k]]
           = (IF friction.call[1].of = "formulas" THEN OfFormulas
                                                  ELSE OfBeggsAndBrill)

\* the two results are the same number
SameValue ==
    /\ OfBeggsAndBrill.value[1] = "ok"
    /\ OfFormulas.value = OfBeggsAndBrill.value
    /\ OfFormulas.excess = OfBeggsAndBrill.excess

\* the cases on which the revisions agree and differ, but for y = 1
RevisionsApart ==
    /\ (11 * Y > 6 * Scale /\ Y < Scale) \/ Y > 12000 => SameValue
    /\ Y > Scale /\ Y <= 12000 =>
           /\ OfFormulas.value =
                  Ok((friction.moody_friction_factor
                          * Exp(SecondLog(Y)[2])) \div Scale)
           /\ OfBeggsAndBrill.value = Ok(friction.moody_friction_factor)
           /\ OfFormulas.value[2] > OfBeggsAndBrill.value[2]
    /\ 11 * Y <= 6 * Scale =>
           /\ OfFormulas.value = ValueError
           /\ OfBeggsAndBrill.value[1] = "ok"
           /\ OfBeggsAndBrill.rational

=============================================================================
